---- MODULE Spec2Model ----
(***************************************************************************)
(* Model of the native transit journey planner of DubaiRTA:                *)
(*   - find_transit_bfs.js, lines 1-857    : the BFS finder                *)
(*   - find_transit_bfs.js, lines 858-1775 : the combined finder           *)
(* The model covers the GTFS service-day filter (preloadTransitData), the  *)
(* connection expander (getDirectConnections), both bfsSearch variants and *)
(* both main procedures with their walk fallback.                          *)
(*                                                                         *)
(* Conventions                                                             *)
(*   time      an "HH:MM:SS" string is the number of seconds since 00:00:00 *)
(*             (HMS); the code's string arithmetic is modelled on the      *)
(*             h, m, s fields it parses.                                   *)
(*   distance  kilometres * 100 (0.35 km = 35); stops lie on a line and    *)
(*             calculateDistance is the absolute difference of positions.  *)
(*   null      the record null stands for JavaScript's null route.         *)
(*   headsign  is carried along by the code and never read; it is omitted. *)
(***************************************************************************)
EXTENDS Integers, Sequences, FiniteSets, TLC

VARIABLES
    input,            \* the feed on disk and the command line of the query
    pc,               \* position of main
    targetStopsList,  \* main: findNearestStops(place, MAX_DESTINATIONS_NEAR_PLACE)
    preloadedData,    \* main: preloadTransitData(...)
    nearbyStops,      \* main: the walkable stops
    search,           \* the locals of the running bfsSearch call
    originalResult,   \* main: result of the search from the source stop
    nearbyResults,    \* combined main: results of the searches from walkable stops
    nearbyIndex,      \* main: index of the walkable stop being searched
    foundDirectRoute, \* combined main: flag of the same name
    result,           \* main: the journey that is displayed (null: none)
    benchmark         \* the benchmark: locals of processStopsWithConcurrency

vars == <<input, pc, targetStopsList, preloadedData, nearbyStops, search,
          originalResult, nearbyResults, nearbyIndex, foundDirectRoute, result,
          benchmark>>

----------------------------------------------------------------------------
(* Program constants *)

TRANSFER_TIME_MINUTES == 5
DEFAULT_MAX_TRANSFERS == 2
MAX_TRANSFERS == 5
MAX_WALKING_DISTANCE_KM == 50
WALKING_SPEED_M_PER_MIN == 80
MAX_ITERATIONS == 20000
MAX_ITERATIONS_COMBINED == 50000
EARLY_RETURN_DISTANCE == 35
TRANSFER_PENALTY == 30
Infinity == 1000000000

(* The code asks for the 20 nearest stops; the feeds of the model have a    *)
(* handful of stops, so the count is scaled down to keep some stops out of  *)
(* the target set.                                                          *)
MAX_DESTINATIONS_NEAR_PLACE == 2
MAX_NEARBY_STOPS_TO_CHECK == 3

----------------------------------------------------------------------------
(* Time strings *)

HMS(h, m, s) == h * 3600 + m * 60 + s

Hour(t) == t \div 3600
Minute(t) == (t % 3600) \div 60
Second(t) == t % 60

addMinutesToTime(timeStr, minutes) ==
    LET totalMinutes == Hour(timeStr) * 60 + Minute(timeStr) + minutes
        newH == (totalMinutes \div 60) % 24
        newM == totalMinutes % 60
    IN  HMS(newH, newM, Second(timeStr))

compareTime(time1, time2) ==
    LET total1 == Hour(time1) * 3600 + Minute(time1) * 60 + Second(time1)
        total2 == Hour(time2) * 3600 + Minute(time2) * 60 + Second(time2)
    IN  IF total1 < total2 THEN -1 ELSE IF total1 > total2 THEN 1 ELSE 0

timeDifferenceMinutes(time1, time2) ==
    (Hour(time2) * 60 + Minute(time2)) - (Hour(time1) * 60 + Minute(time1))

----------------------------------------------------------------------------
(* Sequences *)

Range(s) == {s[i] : i \in 1..Len(s)}

InsertAt(s, i, x) == SubSeq(s, 1, i - 1) \o <<x>> \o SubSeq(s, i, Len(s))

(* Array.prototype.findIndex from index `from`: the first i with Test(s[i]), 0 if none *)
FirstIndex(s, Test(_), from) ==
    LET hits == {i \in from..Len(s) : Test(s[i])}
    IN  IF hits = {} THEN 0 ELSE CHOOSE i \in hits : \A j \in hits : i <= j

(* Array.prototype.sort((a, b) => Key(a) - Key(b)): stable, ascending *)
SortBy(s, Key(_)) ==
    LET sorted[n \in 0..Len(s)] ==
            IF n = 0 THEN <<>>
            ELSE LET x == s[n]
                     after(e) == Key(e) > Key(x)
                     at == FirstIndex(sorted[n - 1], after, 1)
                 IN  IF at = 0 THEN Append(sorted[n - 1], x)
                     ELSE InsertAt(sorted[n - 1], at, x)
    IN  sorted[Len(s)]

RECURSIVE Dedup(_)
(* the distinct elements of s in the order of their first appearance *)
Dedup(s) ==
    IF s = <<>> THEN <<>>
    ELSE LET front == Dedup(SubSeq(s, 1, Len(s) - 1))
         IN  IF s[Len(s)] \in Range(front) THEN front ELSE Append(front, s[Len(s)])

----------------------------------------------------------------------------
(* Feed store *)

(* loadFile: the rows of a file of the feed, none when the file is absent  *)
(* (the message on the error stream is not part of the state)              *)
loadFile(feed, filename) ==
    IF filename \in feed.missing THEN <<>> ELSE feed[filename]

(* fs.readFileSync of stop_times.txt raises when the file is absent *)
readFileRaises(feed, filename) == filename \in feed.missing

----------------------------------------------------------------------------
(* Geo index *)

calculateDistance(pos1, pos2) == IF pos1 >= pos2 THEN pos1 - pos2 ELSE pos2 - pos1

findNearestStops(stops, target, maxResults) ==
    LET hasCoordinates(stop) == stop.has_coord
        withCoordinates == SelectSeq(stops, hasCoordinates)
        stopsWithDistance ==
            [i \in 1..Len(withCoordinates) |->
                [stop_id  |-> withCoordinates[i].stop_id,
                 pos      |-> withCoordinates[i].pos,
                 distance |-> calculateDistance(target, withCoordinates[i].pos)]]
        distanceOf(stop) == stop.distance
        sorted == SortBy(stopsWithDistance, distanceOf)
    IN  SubSeq(sorted, 1, IF Len(sorted) < maxResults THEN Len(sorted) ELSE maxResults)

----------------------------------------------------------------------------
(* Service-day filter *)

(* preloadTransitData without the end_date test of the calendar *)
preloadTransitDataNoEndDate(feed, dayName, todayDate, routeType) ==
    LET targetRouteIds ==
            {r.route_id : r \in {x \in Range(loadFile(feed, "routes")) :
                                    routeType = "" \/ x.route_type = routeType}}
        activeServices ==
            {c.service_id : c \in {x \in Range(loadFile(feed, "calendar")) :
                                    /\ dayName \in x.days
                                    /\ todayDate >= x.start_date}}
        isValid(t) == t.route_id \in targetRouteIds /\ t.service_id \in activeServices
        validTrips == SelectSeq(loadFile(feed, "trips"), isValid)
    IN  [validTripIds |-> {t.trip_id : t \in Range(validTrips)},
         tripRouteMap |-> [id \in {t.trip_id : t \in Range(validTrips)} |->
                              LET ofId(t) == t.trip_id = id
                                  same == SelectSeq(validTrips, ofId)
                              IN  same[Len(same)]],
         stopTimeLines |-> feed.stop_times]

preloadTransitData(feed, dayName, todayDate, routeType) ==
    LET targetRouteIds ==
            {r.route_id : r \in {x \in Range(loadFile(feed, "routes")) :
                                    routeType = "" \/ x.route_type = routeType}}
        activeServices ==
            {c.service_id : c \in {x \in Range(loadFile(feed, "calendar")) :
                                    /\ dayName \in x.days
                                    /\ todayDate >= x.start_date
                                    /\ todayDate <= x.end_date}}
        isValid(t) == t.route_id \in targetRouteIds /\ t.service_id \in activeServices
        validTrips == SelectSeq(loadFile(feed, "trips"), isValid)
    IN  [validTripIds |-> {t.trip_id : t \in Range(validTrips)},
         tripRouteMap |-> [id \in {t.trip_id : t \in Range(validTrips)} |->
                              LET ofId(t) == t.trip_id = id
                                  same == SelectSeq(validTrips, ofId)
                              IN  same[Len(same)]],
         stopTimeLines |-> feed.stop_times]

----------------------------------------------------------------------------
(* Connection expander *)

(* tripStopMap of getDirectConnections: the keys in insertion order (the   *)
(* order in which Object.entries visits string keys), each with its rows   *)
(* in file order.                                                          *)
TripStopKeys(pre) ==
    LET valid(row) == row.trip_id \in pre.validTripIds
        rows == SelectSeq(pre.stopTimeLines, valid)
    IN  Dedup([i \in 1..Len(rows) |-> rows[i].trip_id])

(* the rows of a trip left in file order *)
TripStopsUnsorted(pre, tripId) ==
    LET ofTrip(row) == row.trip_id = tripId
    IN  SelectSeq(pre.stopTimeLines, ofTrip)

TripStops(pre, tripId) ==
    LET ofTrip(row) == row.trip_id = tripId
        seqOf(row) == row.seq
    IN  SortBy(SelectSeq(pre.stopTimeLines, ofTrip), seqOf)

(* getDirectConnections emitting only the stop after the boarding stop *)
TripConnectionsNextStopOnly(pre, tripId, stopId, afterTime) ==
    LET ofTrip(row) == row.trip_id = tripId
        seqOf(row) == row.seq
        stops == SortBy(SelectSeq(pre.stopTimeLines, ofTrip), seqOf)
        atStop(s) == s.stop_id = stopId
        stopIndex == FirstIndex(stops, atStop, 1)
    IN  IF stopIndex = 0 \/ stopIndex = Len(stops) THEN <<>>
        ELSE IF compareTime(stops[stopIndex].dep, afterTime) <= 0 THEN <<>>
        ELSE <<[stop_id        |-> stops[stopIndex + 1].stop_id,
                arrival_time   |-> stops[stopIndex + 1].arr,
                departure_time |-> stops[stopIndex].dep,
                trip_id        |-> tripId,
                route_id       |-> pre.tripRouteMap[tripId].route_id]>>

TripConnections(pre, tripId, stopId, afterTime) ==
    LET stops == TripStops(pre, tripId)
        atStop(s) == s.stop_id = stopId
        stopIndex == FirstIndex(stops, atStop, 1)
    IN  IF stopIndex = 0 THEN <<>>
        ELSE IF compareTime(stops[stopIndex].dep, afterTime) <= 0 THEN <<>>
        ELSE [k \in 1..(Len(stops) - stopIndex) |->
                [stop_id        |-> stops[stopIndex + k].stop_id,
                 arrival_time   |-> stops[stopIndex + k].arr,
                 departure_time |-> stops[stopIndex].dep,
                 trip_id        |-> tripId,
                 route_id       |-> pre.tripRouteMap[tripId].route_id]]

RECURSIVE ConnectionsOfTrips(_, _, _, _)
ConnectionsOfTrips(pre, keys, stopId, afterTime) ==
    IF keys = <<>> THEN <<>>
    ELSE TripConnections(pre, Head(keys), stopId, afterTime)
            \o ConnectionsOfTrips(pre, Tail(keys), stopId, afterTime)

getDirectConnections(stopId, afterTime, pre) ==
    ConnectionsOfTrips(pre, TripStopKeys(pre), stopId, afterTime)

----------------------------------------------------------------------------
(* Best-first search: what both variants share *)

null == [path |-> <<>>, finalStop |-> 0, finalTime |-> 0, numTransfers |-> -1,
         distanceToDestination |-> Infinity]

(* a target test that is never true *)
TargetStopsNone(list) == {}

TargetStops(list) == {list[i].stop_id : i \in 1..Len(list)}

(* stopDistanceMap.get: Map.set keeps the last entry of a stop_id *)
getMinDistanceToTarget(list, stopId) ==
    LET hits == {i \in 1..Len(list) : list[i].stop_id = stopId}
    IN  IF hits = {} THEN Infinity
        ELSE list[CHOOSE i \in hits : \A j \in hits : j <= i].distance

(* a bound that no distance exceeds *)
TimesInfinity(d) == Infinity

Times2(d) == IF d = Infinity THEN Infinity ELSE 2 * d

NewLeg(current, conn) ==
    [from      |-> current.stop,
     to        |-> conn.stop_id,
     departure |-> conn.departure_time,
     arrival   |-> conn.arrival_time,
     trip_id   |-> conn.trip_id,
     route_id  |-> conn.route_id]

(* a transfer test that is never true *)
IsTransferNever(current, conn) == FALSE

IsTransfer(current, conn) ==
    /\ Len(current.path) > 0
    /\ \/ current.path[Len(current.path)].route_id # conn.route_id
       \/ current.path[Len(current.path)].trip_id # conn.trip_id

nextAvailableTime(current) ==
    IF Len(current.path) > 0
    THEN addMinutesToTime(current.time, TRANSFER_TIME_MINUTES)
    ELSE current.time

InitialSearch(startStop, startTime, list, maxTransfers) ==
    IF startStop \in TargetStops(list)
    THEN [startStop |-> startStop, maxTransfers |-> maxTransfers,
          queue |-> <<>>, visited |-> {}, bestRoute |-> null, best |-> Infinity,
          iterations |-> 0, returned |-> TRUE,
          value |-> [path |-> <<>>, finalStop |-> startStop, finalTime |-> startTime,
                     numTransfers |-> 0,
                     distanceToDestination |-> getMinDistanceToTarget(list, startStop)]]
    ELSE [startStop |-> startStop, maxTransfers |-> maxTransfers,
          queue |-> <<[stop |-> startStop, time |-> startTime, path |-> <<>>,
                       numTransfers |-> 0,
                       distanceToTarget |-> getMinDistanceToTarget(list, startStop)]>>,
          visited |-> {}, bestRoute |-> null, best |-> Infinity,
          iterations |-> 0, returned |-> FALSE, value |-> null]

----------------------------------------------------------------------------
(* bfsSearch of the BFS finder: one iteration of its while loop *)

(* the index at which the BFS finder inserts a new queue item *)
InsertIndexBfs(queue, distanceToTarget, newNumTransfers) ==
    LET before(item) ==
            \/ distanceToTarget < item.distanceToTarget
            \/ /\ distanceToTarget = item.distanceToTarget
               /\ newNumTransfers < item.numTransfers
        at == FirstIndex(queue, before, 1)
    IN  IF at = 0 THEN Len(queue) + 1 ELSE at

(* the body of `for (const conn of connections)` applied to one connection; *)
(* acc holds queue, bestRoute, best (bestDistance) and the return flag     *)
ConnStepBfs(acc, current, conn, list, maxTransfers) ==
    IF acc.returned THEN acc
    ELSE IF compareTime(conn.departure_time, nextAvailableTime(current)) < 0 THEN acc
    ELSE IF conn.stop_id \in TargetStops(list)
    THEN LET finalNumTransfers ==
                 IF IsTransfer(current, conn) THEN current.numTransfers + 1
                 ELSE current.numTransfers
             distance == getMinDistanceToTarget(list, conn.stop_id)
             better == distance < acc.best
             route == [path |-> Append(current.path, NewLeg(current, conn)),
                       finalStop |-> conn.stop_id,
                       finalTime |-> conn.arrival_time,
                       numTransfers |-> finalNumTransfers,
                       distanceToDestination |-> distance]
             acc1 == IF better
                     THEN [acc EXCEPT !.best = distance, !.bestRoute = route]
                     ELSE acc
         IN  IF distance < EARLY_RETURN_DISTANCE
             THEN [acc1 EXCEPT !.returned = TRUE, !.value = acc1.bestRoute]
             ELSE acc1
    ELSE IF acc.bestRoute # null /\ acc.bestRoute.numTransfers = 0 THEN acc
    ELSE LET newNumTransfers ==
                 IF IsTransfer(current, conn) THEN current.numTransfers + 1
                 ELSE current.numTransfers
             distanceToTarget == getMinDistanceToTarget(list, conn.stop_id)
             queueItem == [stop |-> conn.stop_id,
                           time |-> conn.arrival_time,
                           path |-> Append(current.path, NewLeg(current, conn)),
                           numTransfers |-> newNumTransfers,
                           distanceToTarget |-> distanceToTarget]
         IN  IF newNumTransfers > maxTransfers THEN acc
             ELSE [acc EXCEPT !.queue =
                      InsertAt(acc.queue,
                               InsertIndexBfs(acc.queue, distanceToTarget, newNumTransfers),
                               queueItem)]

ConnLoopBfs(start, current, connections, list, maxTransfers) ==
    LET after[n \in 0..Len(connections)] ==
            IF n = 0 THEN start
            ELSE ConnStepBfs(after[n - 1], current, connections[n], list, maxTransfers)
    IN  after[Len(connections)]

(* one pass through the body of the while loop, from queue.shift() on *)
IterateBfs(s, list, pre) ==
    LET current == Head(s.queue)
        popped == [s EXCEPT !.queue = Tail(s.queue), !.iterations = s.iterations + 1]
        visitedKey == <<current.stop, current.numTransfers>>
    IN  IF current.stop \in TargetStops(list)
        THEN LET distance == getMinDistanceToTarget(list, current.stop)
                 recorded ==
                     IF distance < popped.best
                     THEN [popped EXCEPT
                              !.best = distance,
                              !.bestRoute = [path |-> current.path,
                                             finalStop |-> current.stop,
                                             finalTime |-> current.time,
                                             numTransfers |-> current.numTransfers,
                                             distanceToDestination |-> distance]]
                     ELSE popped
             IN  IF distance < EARLY_RETURN_DISTANCE
                 THEN [recorded EXCEPT !.returned = TRUE, !.value = recorded.bestRoute]
                 ELSE recorded
        ELSE IF /\ popped.bestRoute # null
                /\ popped.bestRoute.numTransfers = 0
                /\ Len(current.path) > 0 THEN popped
        ELSE IF current.numTransfers > s.maxTransfers THEN popped
        ELSE IF /\ popped.bestRoute # null
                /\ current.distanceToTarget > Times2(popped.best) THEN popped
        ELSE IF visitedKey \in popped.visited THEN popped
        ELSE ConnLoopBfs([popped EXCEPT !.visited = popped.visited \cup {visitedKey}],
                         current,
                         getDirectConnections(current.stop, current.time, pre),
                         list, s.maxTransfers)

----------------------------------------------------------------------------
(* bfsSearch of the combined finder: one iteration of its while loop *)

(* score = numTransfers * 1000 + distance * 10 with distance in km; the    *)
(* model's distances are km * 100, so the score is carried times 100       *)
ScoreCombined(numTransfers, distance) == numTransfers * 100000 + distance * 10

(* an insertion before the states of equal priority *)
InsertBeforeEquals(queue, distanceToTarget, newNumTransfers) ==
    LET before(item) ==
            \/ newNumTransfers < item.numTransfers
            \/ /\ newNumTransfers = item.numTransfers
               /\ distanceToTarget <= item.distanceToTarget
        at == FirstIndex(queue, before, 1)
    IN  IF at = 0 THEN Len(queue) + 1 ELSE at

(* the index at which the combined finder inserts a new queue item *)
InsertIndexCombined(queue, distanceToTarget, newNumTransfers) ==
    LET before(item) ==
            \/ newNumTransfers < item.numTransfers
            \/ /\ newNumTransfers = item.numTransfers
               /\ distanceToTarget < item.distanceToTarget
        at == FirstIndex(queue, before, 1)
    IN  IF at = 0 THEN Len(queue) + 1 ELSE at

(* the body of `for (const conn of connections)` applied to one connection; *)
(* acc holds queue, bestRoute, best (bestScore) and the return flag        *)
ConnStepCombined(acc, current, conn, list, maxTransfers) ==
    IF acc.returned THEN acc
    ELSE IF compareTime(conn.departure_time, nextAvailableTime(current)) < 0 THEN acc
    ELSE LET newNumTransfers ==
                 IF IsTransfer(current, conn) THEN current.numTransfers + 1
                 ELSE current.numTransfers
             newPath == Append(current.path, NewLeg(current, conn))
         IN  IF newNumTransfers > maxTransfers THEN acc
             ELSE IF /\ acc.bestRoute # null
                     /\ acc.bestRoute.numTransfers = 0
                     /\ newNumTransfers > 0 THEN acc
             ELSE IF /\ acc.bestRoute # null
                     /\ acc.bestRoute.numTransfers = 1
                     /\ newNumTransfers >= 2 THEN acc
             ELSE IF conn.stop_id \in TargetStops(list)
             THEN LET distance == getMinDistanceToTarget(list, conn.stop_id)
                      score == ScoreCombined(newNumTransfers, distance)
                      route == [path |-> newPath,
                                finalStop |-> conn.stop_id,
                                finalTime |-> conn.arrival_time,
                                numTransfers |-> newNumTransfers,
                                distanceToDestination |-> distance]
                  IN  IF score < acc.best
                      THEN IF newNumTransfers = 0 \/ newNumTransfers = 1
                           THEN [acc EXCEPT !.best = score, !.bestRoute = route,
                                            !.returned = TRUE, !.value = route]
                           ELSE [acc EXCEPT !.best = score, !.bestRoute = route]
                      ELSE acc
             ELSE IF acc.bestRoute # null /\ acc.bestRoute.numTransfers = 0 THEN acc
             ELSE IF /\ acc.bestRoute # null
                     /\ acc.bestRoute.numTransfers = 1
                     /\ newNumTransfers >= 2 THEN acc
             ELSE LET distanceToTarget == getMinDistanceToTarget(list, conn.stop_id)
                      queueItem == [stop |-> conn.stop_id,
                                    time |-> conn.arrival_time,
                                    path |-> newPath,
                                    numTransfers |-> newNumTransfers,
                                    distanceToTarget |-> distanceToTarget]
                  IN  [acc EXCEPT !.queue =
                          InsertAt(acc.queue,
                                   InsertIndexCombined(acc.queue, distanceToTarget,
                                                       newNumTransfers),
                                   queueItem)]

ConnLoopCombined(start, current, connections, list, maxTransfers) ==
    LET after[n \in 0..Len(connections)] ==
            IF n = 0 THEN start
            ELSE ConnStepCombined(after[n - 1], current, connections[n], list,
                                  maxTransfers)
    IN  after[Len(connections)]

(* one pass through the body of the while loop, from queue.shift() on *)
IterateCombined(s, list, pre) ==
    LET current == Head(s.queue)
        popped == [s EXCEPT !.queue = Tail(s.queue), !.iterations = s.iterations + 1]
        visitedKey == <<current.stop, current.numTransfers>>
    IN  IF current.stop \in TargetStops(list)
        THEN LET distance == getMinDistanceToTarget(list, current.stop)
                 score == ScoreCombined(current.numTransfers, distance)
                 route == [path |-> current.path,
                           finalStop |-> current.stop,
                           finalTime |-> current.time,
                           numTransfers |-> current.numTransfers,
                           distanceToDestination |-> distance]
             IN  IF score < popped.best
                 THEN IF current.numTransfers = 0 \/ current.numTransfers = 1
                      THEN [popped EXCEPT !.best = score, !.bestRoute = route,
                                          !.returned = TRUE, !.value = route]
                      ELSE [popped EXCEPT !.best = score, !.bestRoute = route]
                 ELSE popped
        ELSE IF /\ popped.bestRoute # null
                /\ popped.bestRoute.numTransfers = 0
                /\ Len(current.path) > 0 THEN popped
        ELSE IF /\ popped.bestRoute # null
                /\ popped.bestRoute.numTransfers = 1
                /\ current.numTransfers >= 1 THEN popped
        ELSE IF current.numTransfers > s.maxTransfers THEN popped
        ELSE IF visitedKey \in popped.visited THEN popped
        ELSE ConnLoopCombined([popped EXCEPT !.visited = popped.visited \cup {visitedKey}],
                              current,
                              getDirectConnections(current.stop, current.time, pre),
                              list, s.maxTransfers)

RECURSIVE RunCombined(_, _, _)
(* the while loop of the combined finder's bfsSearch run to its return *)
RunCombined(s, list, pre) ==
    IF s.returned THEN s.value
    ELSE IF Len(s.queue) = 0 \/ s.iterations >= MAX_ITERATIONS_COMBINED THEN s.bestRoute
    ELSE RunCombined(IterateCombined(s, list, pre), list, pre)

(* bfsSearch(startStop, targetStops, targetStopsList, startTime, MAX_TRANSFERS, ..) *)
bfsSearchCombined(startStop, startTime, list, pre) ==
    RunCombined(InitialSearch(startStop, startTime, list, MAX_TRANSFERS), list, pre)

calculateTotalTime(route, walkTime) ==
    IF route = null \/ Len(route.path) = 0 THEN Infinity
    ELSE timeDifferenceMinutes(route.path[1].departure,
                               route.path[Len(route.path)].arrival) + walkTime

----------------------------------------------------------------------------
(* The main procedures *)

noWalk == [to |-> 0, distance |-> 0, time |-> 0]
noJourney == [route |-> null, walk |-> noWalk]
idle == [startStop |-> 0, maxTransfers |-> 0, queue |-> <<>>, visited |-> {},
         bestRoute |-> null, best |-> Infinity, iterations |-> 0,
         returned |-> FALSE, value |-> null]

Min(a, b) == IF a < b THEN a ELSE b

(* Math.ceil(distance * 1000 / 80) for a distance in km * 100 *)
WalkTime(distance) == (distance * 10 + WALKING_SPEED_M_PER_MIN - 1) \div WALKING_SPEED_M_PER_MIN

WalkTo(nearbyStop) ==
    [to |-> nearbyStop.stop_id, distance |-> nearbyStop.distance,
     time |-> WalkTime(nearbyStop.distance)]

(* the walkable stops: findNearestStops around the source, then the filter *)
WalkableStops(stops, stopA) ==
    LET isA(stop) == stop.stop_id = stopA
        at == FirstIndex(stops, isA, 1)
        walkable(stop) == stop.stop_id # stopA /\ stop.distance <= MAX_WALKING_DISTANCE_KM
    IN  IF at = 0 \/ ~stops[at].has_coord THEN <<>>
        ELSE SelectSeq(findNearestStops(stops, stops[at].pos, MAX_NEARBY_STOPS_TO_CHECK),
                       walkable)

(* maxTransfers as the BFS finder's main derives it from the command line *)
MaxTransfersBfs == Min(input.maxTransfers, DEFAULT_MAX_TRANSFERS)

MaxTransfersOf(finder) == IF finder = "bfs" THEN MaxTransfersBfs ELSE MAX_TRANSFERS

(* steps 1-3 of main (and step 4 of the combined finder), then the call of *)
(* bfsSearch from the source stop up to its while loop.  When the read of  *)
(* stop_times.txt in preloadTransitData raises, the catch block of main    *)
(* reports the error and the process exits with status 1.                  *)
MainSetup ==
    /\ pc = "start"
    /\ IF readFileRaises(input.feed, "stop_times")
       THEN /\ pc' = "error"
            /\ UNCHANGED <<targetStopsList, preloadedData, nearbyStops, search>>
       ELSE /\ LET list == findNearestStops(loadFile(input.feed, "stops"), input.place,
                                            MAX_DESTINATIONS_NEAR_PLACE)
               IN  /\ targetStopsList' = list
                   /\ search' = InitialSearch(input.stopA, input.userTime, list,
                                              MaxTransfersOf(input.finder))
            /\ preloadedData' = preloadTransitData(input.feed, input.dayName,
                                                   input.todayDate, input.routeType)
            /\ nearbyStops' = IF input.finder = "combined"
                              THEN WalkableStops(loadFile(input.feed, "stops"),
                                                 input.stopA)
                              ELSE <<>>
            /\ pc' = "search"
    /\ UNCHANGED <<input, originalResult, nearbyResults, nearbyIndex,
                   foundDirectRoute, result>>
    /\ UNCHANGED benchmark

(* one iteration of the while loop of the BFS finder's bfsSearch *)
BfsIteration ==
    /\ pc = "search" /\ input.finder = "bfs" /\ ~search.returned
    /\ Len(search.queue) > 0 /\ search.iterations < MAX_ITERATIONS
    /\ search' = IterateBfs(search, targetStopsList, preloadedData)
    /\ UNCHANGED <<input, pc, targetStopsList, preloadedData, nearbyStops,
                   originalResult, nearbyResults, nearbyIndex, foundDirectRoute, result>>
    /\ UNCHANGED benchmark

(* one iteration of the while loop of the combined finder's bfsSearch *)
CombinedIteration ==
    /\ pc = "search" /\ input.finder = "combined" /\ ~search.returned
    /\ Len(search.queue) > 0 /\ search.iterations < MAX_ITERATIONS_COMBINED
    /\ search' = IterateCombined(search, targetStopsList, preloadedData)
    /\ UNCHANGED <<input, pc, targetStopsList, preloadedData, nearbyStops,
                   originalResult, nearbyResults, nearbyIndex, foundDirectRoute, result>>
    /\ UNCHANGED benchmark

(* the end of the while loop returning null whatever was recorded *)
SearchExitDropsBest ==
    /\ pc = "search" /\ ~search.returned
    /\ \/ Len(search.queue) = 0
       \/ search.iterations >= (IF input.finder = "bfs" THEN MAX_ITERATIONS
                                ELSE MAX_ITERATIONS_COMBINED)
    /\ search' = [search EXCEPT !.returned = TRUE, !.value = null]
    /\ UNCHANGED <<input, pc, targetStopsList, preloadedData, nearbyStops,
                   originalResult, nearbyResults, nearbyIndex, foundDirectRoute, result>>
    /\ UNCHANGED benchmark

(* the while loop ends: `return bestRoute` at the end of either bfsSearch *)
SearchExit ==
    /\ pc = "search" /\ ~search.returned
    /\ \/ Len(search.queue) = 0
       \/ search.iterations >= (IF input.finder = "bfs" THEN MAX_ITERATIONS
                                ELSE MAX_ITERATIONS_COMBINED)
    /\ search' = [search EXCEPT !.returned = TRUE, !.value = search.bestRoute]
    /\ UNCHANGED <<input, pc, targetStopsList, preloadedData, nearbyStops,
                   originalResult, nearbyResults, nearbyIndex, foundDirectRoute, result>>
    /\ UNCHANGED benchmark

(* BFS finder main, after bfsSearch from the source returned *)
BfsMainOriginal ==
    /\ pc = "search" /\ input.finder = "bfs" /\ search.returned /\ nearbyIndex = 0
    /\ originalResult' = search.value
    /\ IF search.value # null
       THEN /\ result' = [route |-> search.value, walk |-> noWalk]
            /\ pc' = "done"
            /\ UNCHANGED <<nearbyStops, search, nearbyIndex>>
       ELSE LET nearby == WalkableStops(loadFile(input.feed, "stops"), input.stopA)
            IN  /\ nearbyStops' = nearby
                /\ IF Len(nearby) > 0
                   THEN /\ search' = InitialSearch(nearby[1].stop_id, input.userTime,
                                                   targetStopsList, MaxTransfersBfs)
                        /\ nearbyIndex' = 1
                        /\ UNCHANGED <<pc, result>>
                   ELSE /\ pc' = "done"
                        /\ result' = noJourney
                        /\ UNCHANGED <<search, nearbyIndex>>
    /\ UNCHANGED <<input, targetStopsList, preloadedData, nearbyResults, foundDirectRoute>>
    /\ UNCHANGED benchmark

(* BFS finder main, after bfsSearch from a walkable stop returned *)
BfsMainNearby ==
    /\ pc = "search" /\ input.finder = "bfs" /\ search.returned /\ nearbyIndex > 0
    /\ IF search.value # null
       THEN /\ result' = [route |-> search.value, walk |-> WalkTo(nearbyStops[nearbyIndex])]
            /\ pc' = "done"
            /\ UNCHANGED <<search, nearbyIndex>>
       ELSE IF nearbyIndex < Len(nearbyStops)
       THEN /\ search' = InitialSearch(nearbyStops[nearbyIndex + 1].stop_id, input.userTime,
                                       targetStopsList, MaxTransfersBfs)
            /\ nearbyIndex' = nearbyIndex + 1
            /\ UNCHANGED <<pc, result>>
       ELSE /\ pc' = "done"
            /\ result' = noJourney
            /\ UNCHANGED <<search, nearbyIndex>>
    /\ UNCHANGED <<input, targetStopsList, preloadedData, nearbyStops, originalResult,
                   nearbyResults, foundDirectRoute>>
    /\ UNCHANGED benchmark

(* combined main, phase 1: after bfsSearch from the source returned *)
CombinedMainOriginal ==
    /\ pc = "search" /\ input.finder = "combined" /\ search.returned /\ nearbyIndex = 0
    /\ originalResult' = search.value
    /\ LET found == search.value # null /\ search.value.numTransfers = 0
       IN  /\ foundDirectRoute' = found
           /\ IF ~found /\ Len(nearbyStops) > 0
              THEN /\ search' = InitialSearch(nearbyStops[1].stop_id, input.userTime,
                                              targetStopsList, MAX_TRANSFERS)
                   /\ nearbyIndex' = 1
                   /\ UNCHANGED pc
              ELSE /\ pc' = "compare"
                   /\ UNCHANGED <<search, nearbyIndex>>
    /\ UNCHANGED <<input, targetStopsList, preloadedData, nearbyStops, nearbyResults, result>>
    /\ UNCHANGED benchmark

(* combined main, phase 2: after bfsSearch from a walkable stop returned *)
CombinedMainNearby ==
    /\ pc = "search" /\ input.finder = "combined" /\ search.returned /\ nearbyIndex > 0
    /\ LET found == search.value # null /\ search.value.numTransfers = 0
       IN  /\ nearbyResults' =
                 IF search.value # null
                 THEN Append(nearbyResults,
                             [route |-> search.value,
                              walk |-> WalkTo(nearbyStops[nearbyIndex])])
                 ELSE nearbyResults
           /\ foundDirectRoute' = (foundDirectRoute \/ found)
           /\ IF ~found /\ nearbyIndex < Len(nearbyStops)
              THEN /\ search' = InitialSearch(nearbyStops[nearbyIndex + 1].stop_id,
                                              input.userTime, targetStopsList, MAX_TRANSFERS)
                   /\ nearbyIndex' = nearbyIndex + 1
                   /\ UNCHANGED pc
              ELSE /\ pc' = "compare"
                   /\ UNCHANGED <<search, nearbyIndex>>
    /\ UNCHANGED <<input, targetStopsList, preloadedData, nearbyStops, originalResult, result>>
    /\ UNCHANGED benchmark

(* score = totalTime + numTransfers * 30 of step 6 *)
OverallScore(candidate) ==
    LET totalTime == calculateTotalTime(candidate.route, candidate.walk.time)
    IN  IF totalTime = Infinity THEN Infinity
        ELSE totalTime + candidate.route.numTransfers * TRANSFER_PENALTY

(* step 6: the candidates in the order in which they are compared *)
Candidates(original, nearby) ==
    (IF original # null THEN <<[route |-> original, walk |-> noWalk]>> ELSE <<>>) \o nearby

BestOverall(candidates) ==
    LET best[n \in 0..Len(candidates)] ==
            IF n = 0 THEN [route |-> noJourney, score |-> Infinity]
            ELSE IF OverallScore(candidates[n]) < best[n - 1].score
                 THEN [route |-> candidates[n], score |-> OverallScore(candidates[n])]
                 ELSE best[n - 1]
    IN  best[Len(candidates)].route

(* combined main, step 6: compare all results and pick the best score *)
CombinedMainCompare ==
    /\ pc = "compare"
    /\ result' = BestOverall(Candidates(originalResult, nearbyResults))
    /\ pc' = "done"
    /\ UNCHANGED <<input, targetStopsList, preloadedData, nearbyStops, search,
                   originalResult, nearbyResults, nearbyIndex, foundDirectRoute>>
    /\ UNCHANGED benchmark

----------------------------------------------------------------------------
(* find_next_transit.js, --to-place mode: the direct-trip finder           *)

NEAREST_STOPS_TO_PLACE == 100
NEARBY_SOURCE_STOPS == 100
WALKABLE_SOURCE_DISTANCE_KM == 200
BATCH_SIZE == 10

noTrip == [trip_id |-> 0, departure_time |-> 0, arrival_at_B |-> 0, route_id |-> 0,
           stopB |-> 0]
noTransit == [trip |-> noTrip, walk |-> noWalk]

(* tripStops[tId][sId]: the rows of valid trips at the source or at a      *)
(* candidate stop; a later row of the same trip and stop replaces the      *)
(* earlier one.                                                            *)
TripStopAt(pre, tripId, stopId) ==
    LET hits == {i \in 1..Len(pre.stopTimeLines) :
                    /\ pre.stopTimeLines[i].trip_id = tripId
                    /\ pre.stopTimeLines[i].stop_id = stopId}
    IN  IF hits = {} THEN <<>>
        ELSE <<pre.stopTimeLines[CHOOSE i \in hits : \A j \in hits : j <= i]>>

(* the matches pushed for one trip: one per candidate stop, in the order   *)
(* of candidateStops                                                       *)
TripMatches(pre, tripId, stopA, candidateStops) ==
    LET atA == TripStopAt(pre, tripId, stopA)
        matchOf(candidate) ==
            LET atB == TripStopAt(pre, tripId, candidate.stop_id)
            IN  IF atA # <<>> /\ atB # <<>> /\ atA[1].seq < atB[1].seq
                THEN <<[trip_id        |-> tripId,
                        departure_time |-> atA[1].dep,
                        arrival_at_B   |-> atB[1].arr,
                        route_id       |-> pre.tripRouteMap[tripId].route_id,
                        stopB          |-> candidate.stop_id]>>
                ELSE <<>>
        all[n \in 0..Len(candidateStops)] ==
            IF n = 0 THEN <<>> ELSE all[n - 1] \o matchOf(candidateStops[n])
    IN  all[Len(candidateStops)]

(* every match, trip by trip in the key order of tripStops *)
RECURSIVE AllMatches(_, _, _, _)
AllMatches(pre, keys, stopA, candidateStops) ==
    IF keys = <<>> THEN <<>>
    ELSE TripMatches(pre, Head(keys), stopA, candidateStops)
            \o AllMatches(pre, Tail(keys), stopA, candidateStops)

(* matchesByDest[stopB]: the matches of a destination in push order *)
MatchesByDest(matches, stopB) ==
    LET toB(m) == m.stopB = stopB
    IN  SelectSeq(matches, toB)

(* Object.entries(matchesByDest): stop ids are integer keys, which are     *)
(* visited in ascending numeric order                                      *)
DestinationKeys(matches) ==
    LET ids == {matches[i].stopB : i \in 1..Len(matches)}
        ordered[n \in 0..Cardinality(ids)] ==
            IF n = 0 THEN <<>>
            ELSE Append(ordered[n - 1],
                        CHOOSE id \in ids \ Range(ordered[n - 1]) :
                            \A other \in ids \ Range(ordered[n - 1]) : id <= other)
    IN  ordered[Cardinality(ids)]

(* matches.sort by departure_time, then matches.find(dep > userTime) *)
NextTripTo(matches, stopB, userTime) ==
    LET departureOf(m) == m.departure_time
        sorted == SortBy(MatchesByDest(matches, stopB), departureOf)
        later(m) == m.departure_time > userTime
        at == FirstIndex(sorted, later, 1)
    IN  IF at = 0 THEN <<>> ELSE <<sorted[at]>>

(* step 6 of findBestDirectTrip: one destination of the loop *)
BestTripStep(best, nextTrip, stopDistance) ==
    IF nextTrip = <<>> THEN best
    ELSE IF \/ best.bestTrip = noTrip
            \/ 10 * stopDistance < 8 * best.bestStopDistance
            \/ /\ 10 * stopDistance < 12 * best.bestStopDistance
               /\ nextTrip[1].departure_time < best.bestTrip.departure_time
         THEN [bestTrip |-> nextTrip[1], bestStopDistance |-> stopDistance]
         ELSE best

findBestDirectTrip(stopA, candidateStops, userTime, pre) ==
    IF pre.validTripIds = {} THEN noTrip
    ELSE LET matches == AllMatches(pre, TripStopKeys(pre), stopA, candidateStops)
             keys == DestinationKeys(matches)
             distanceOf(stopB) ==
                 LET isB(s) == s.stop_id = stopB
                 IN  candidateStops[FirstIndex(candidateStops, isB, 1)].distance
             best[n \in 0..Len(keys)] ==
                 IF n = 0 THEN [bestTrip |-> noTrip, bestStopDistance |-> Infinity]
                 ELSE BestTripStep(best[n - 1], NextTripTo(matches, keys[n], userTime),
                                   distanceOf(keys[n]))
         IN  best[Len(keys)].bestTrip

(* the stops within walking distance of the source, nearest first *)
NearbySourceStops(stops, stopA) ==
    LET isA(stop) == stop.stop_id = stopA
        at == FirstIndex(stops, isA, 1)
        walkable(stop) == stop.stop_id # stopA /\ stop.distance <= WALKABLE_SOURCE_DISTANCE_KM
    IN  IF at = 0 \/ ~stops[at].has_coord THEN <<>>
        ELSE SelectSeq(findNearestStops(stops, stops[at].pos, NEARBY_SOURCE_STOPS), walkable)

(* the batches of BATCH_SIZE walkable stops: the loop leaves after the     *)
(* first batch with a connection and keeps the first connection of it      *)
RECURSIVE FirstTransferOption(_, _, _, _, _)
FirstTransferOption(nearby, from, candidateStops, userTime, pre) ==
    IF from > Len(nearby) THEN noTransit
    ELSE LET last == Min(from + BATCH_SIZE - 1, Len(nearby))
             found(i) == findBestDirectTrip(nearby[i].stop_id, candidateStops,
                                            userTime, pre) # noTrip
             hits == {i \in from..last : found(i)}
         IN  IF hits = {}
             THEN FirstTransferOption(nearby, last + 1, candidateStops, userTime, pre)
             ELSE LET i == CHOOSE h \in hits : \A other \in hits : h <= other
                  IN  [trip |-> findBestDirectTrip(nearby[i].stop_id, candidateStops,
                                                   userTime, pre),
                       walk |-> [to |-> nearby[i].stop_id, distance |-> nearby[i].distance,
                                 time |-> (nearby[i].distance * 10 + 79) \div 80]]

(* main, --to-place: steps 1-3 and the search from the source stop *)
TransitMainDirect ==
    /\ pc = "start" /\ input.finder = "transit"
    /\ LET nearestStops == findNearestStops(loadFile(input.feed, "stops"), input.place,
                                            NEAREST_STOPS_TO_PLACE)
           pre == preloadTransitData(input.feed, input.dayName, input.todayDate,
                                     input.routeType)
           direct == findBestDirectTrip(input.stopA, nearestStops, input.userTime, pre)
       IN  /\ targetStopsList' = nearestStops
           /\ preloadedData' = pre
           /\ IF direct # noTrip
              THEN /\ result' = [trip |-> direct, walk |-> noWalk]
                   /\ pc' = "done"
                   /\ UNCHANGED nearbyStops
              ELSE /\ nearbyStops' = NearbySourceStops(loadFile(input.feed, "stops"),
                                                       input.stopA)
                   /\ result' = noTransit
                   /\ pc' = "nearby"
    /\ UNCHANGED <<input, search, originalResult, nearbyResults, nearbyIndex,
                   foundDirectRoute>>
    /\ UNCHANGED benchmark

(* main, --to-place: the search from the walkable stops *)
TransitMainNearby ==
    /\ pc = "nearby" /\ input.finder = "transit"
    /\ result' = FirstTransferOption(nearbyStops, 1, targetStopsList, input.userTime,
                                     preloadedData)
    /\ pc' = "done"
    /\ UNCHANGED <<input, targetStopsList, preloadedData, nearbyStops, search,
                   originalResult, nearbyResults, nearbyIndex, foundDirectRoute>>
    /\ UNCHANGED benchmark

NextTransit ==
    \/ TransitMainDirect
    \/ TransitMainNearby

----------------------------------------------------------------------------
(* benchmark_transit_scripts.js: processStopsWithConcurrency.  The workers *)
(* are async functions on one event loop: a worker runs without            *)
(* interruption from one await to the next.  A stop is an entry of         *)
(* stops.txt with a stop_id (selectRandomStops), so that `!stop` after     *)
(* queue.shift() is false for every stop taken from a queue that is not    *)
(* empty.                                                                  *)

(* what runScript resolves with: success, a timeout, or another error *)
ScriptOutcomes == {"success", "timeout", "error"}

notStarted == [pc |-> "idle", stops |-> <<>>, concurrency |-> 0, queue |-> <<>>,
               results |-> <<>>, completed |-> 0, workers |-> <<>>]

(* a pool of one worker per stop *)
PoolSizeAll(concurrency, n) == n

(* Math.min(concurrency, stops.length) *)
PoolSize(concurrency, n) == Min(concurrency, n)

(* worker(), from the test of its while loop to the await of processStop   *)
(* or to its end; `taken` records the stops that the worker has shifted     *)
(* from the queue                                                          *)
WorkerLoop(b, w, taken) ==
    IF Len(b.queue) > 0
    THEN [b EXCEPT !.queue = Tail(b.queue),
                   !.workers[w] = [state |-> "processing", stop |-> Head(b.queue),
                                   stopNum |-> b.completed + 1,
                                   taken |-> Append(taken, Head(b.queue))]]
    ELSE [b EXCEPT !.workers[w] = [state |-> "finished", stop |-> 0, stopNum |-> 0,
                                   taken |-> taken]]

(* Array(...).fill(null).map(() => worker()): the workers start in turn *)
WorkerPool(b, size) ==
    LET created[n \in 0..size] ==
            IF n = 0 THEN b
            ELSE WorkerLoop([created[n - 1] EXCEPT !.workers =
                                 Append(created[n - 1].workers,
                                        [state |-> "created", stop |-> 0, stopNum |-> 0,
                                         taken |-> <<>>])],
                            n, <<>>)
    IN  created[size]

(* processStopsWithConcurrency up to `await Promise.all(workers)` *)
ProcessStopsStart ==
    /\ benchmark.pc = "start"
    /\ benchmark' = [WorkerPool([benchmark EXCEPT !.queue = benchmark.stops],
                                PoolSize(benchmark.concurrency, Len(benchmark.stops)))
                         EXCEPT !.pc = "running"]
    /\ UNCHANGED <<input, pc, targetStopsList, preloadedData, nearbyStops, search,
                   originalResult, nearbyResults, nearbyIndex, foundDirectRoute, result>>

(* processStop of a worker resolves, both scripts having ended; the worker *)
(* pushes the result, counts it and goes round its loop                    *)
WorkerResumes ==
    /\ benchmark.pc = "running"
    /\ \E w \in 1..Len(benchmark.workers), bfs \in ScriptOutcomes, transfer \in ScriptOutcomes :
           /\ benchmark.workers[w].state = "processing"
           /\ benchmark' =
                  WorkerLoop([benchmark EXCEPT
                                  !.results = Append(benchmark.results,
                                                     [stopId |-> benchmark.workers[w].stop,
                                                      bfs |-> bfs, transfer |-> transfer]),
                                  !.completed = benchmark.completed + 1],
                             w, benchmark.workers[w].taken)
    /\ UNCHANGED <<input, pc, targetStopsList, preloadedData, nearbyStops, search,
                   originalResult, nearbyResults, nearbyIndex, foundDirectRoute, result>>

(* Promise.all(workers) resolves and the results are returned *)
ProcessStopsReturn ==
    /\ benchmark.pc = "running"
    /\ \A w \in 1..Len(benchmark.workers) : benchmark.workers[w].state = "finished"
    /\ benchmark' = [benchmark EXCEPT !.pc = "returned"]
    /\ UNCHANGED <<input, pc, targetStopsList, preloadedData, nearbyStops, search,
                   originalResult, nearbyResults, nearbyIndex, foundDirectRoute, result>>

NextBenchmark ==
    \/ ProcessStopsStart
    \/ WorkerResumes
    \/ ProcessStopsReturn

----------------------------------------------------------------------------
Next ==
    \/ MainSetup
    \/ BfsIteration
    \/ CombinedIteration
    \/ SearchExit
    \/ BfsMainOriginal
    \/ BfsMainNearby
    \/ CombinedMainOriginal
    \/ CombinedMainNearby
    \/ CombinedMainCompare

----------------------------------------------------------------------------
(* Feeds and queries *)

(* A trip of the timetable: it calls at `stops` in this order, leaves the   *)
(* first at t0, takes `hop` seconds between stops and waits `dwell` seconds *)
(* at every stop after the first.                                          *)
TripArrival(trip, i) == trip.t0 + (i - 1) * trip.hop + (IF i > 1 THEN (i - 2) * trip.dwell ELSE 0)
TripDeparture(trip, i) == IF i = 1 THEN trip.t0 ELSE TripArrival(trip, i) + trip.dwell

(* the stop_times.txt rows of a trip in ascending stop_sequence *)
TripRows(trip) ==
    [i \in 1..Len(trip.stops) |->
        [trip_id |-> trip.trip_id, stop_id |-> trip.stops[i], seq |-> 10 * i,
         arr |-> TripArrival(trip, i), dep |-> TripDeparture(trip, i)]]

Reverse(s) == [i \in 1..Len(s) |-> s[Len(s) + 1 - i]]

RECURSIVE StopTimes(_, _)
StopTimes(trips, descending) ==
    IF trips = <<>> THEN <<>>
    ELSE (IF descending THEN Reverse(TripRows(Head(trips))) ELSE TripRows(Head(trips)))
            \o StopTimes(Tail(trips), descending)

Routes == <<[route_id |-> 1, route_type |-> "3"], [route_id |-> 2, route_type |-> "1"]>>

QueryDay == "monday"
Date(year, month, day) == year * 10000 + month * 100 + day
QueryDate == Date(2025, 6, 1)

Calendar ==
    <<[service_id |-> 1, days |-> {"monday", "tuesday"},
       start_date |-> Date(2025, 1, 1), end_date |-> Date(2025, 12, 31)],
      [service_id |-> 2, days |-> {"sunday"},
       start_date |-> Date(2025, 1, 1), end_date |-> Date(2025, 12, 31)],
      [service_id |-> 3, days |-> {"monday"},
       start_date |-> Date(2024, 1, 1), end_date |-> Date(2025, 5, 31)],
      [service_id |-> 4, days |-> {"monday"},
       start_date |-> Date(2025, 6, 2), end_date |-> Date(2025, 12, 31)]>>

Feed(stops, trips, descending) ==
    [stops      |-> stops,
     routes     |-> Routes,
     calendar   |-> Calendar,
     trips      |-> [i \in 1..Len(trips) |->
                        [trip_id |-> trips[i].trip_id, route_id |-> trips[i].route_id,
                         service_id |-> trips[i].service_id]],
     stop_times |-> StopTimes(trips, descending),
     missing    |-> {}]

Stop(id, pos) == [stop_id |-> id, pos |-> pos, has_coord |-> TRUE]

InitWith(inputs) ==
    /\ input \in inputs
    /\ pc = "start"
    /\ targetStopsList = <<>>
    /\ preloadedData = [validTripIds |-> {}, tripRouteMap |-> <<>>, stopTimeLines |-> <<>>]
    /\ nearbyStops = <<>>
    /\ search = idle
    /\ originalResult = null
    /\ nearbyResults = <<>>
    /\ nearbyIndex = 0
    /\ foundDirectRoute = FALSE
    /\ result = noJourney
    /\ benchmark = notStarted

----------------------------------------------------------------------------
(* Families of inputs.  Stop 1 is the source of every query.               *)

(* trip_id is the position of the trip in trips.txt *)
Numbered(trips) ==
    [i \in 1..Len(trips) |->
        [trip_id |-> i, route_id |-> trips[i].route_id, service_id |-> trips[i].service_id,
         stops |-> trips[i].stops, t0 |-> trips[i].t0, hop |-> trips[i].hop,
         dwell |-> trips[i].dwell]]

TripLists(pool, n) == UNION {[1..k -> pool] : k \in 1..n}

Dwells(path) == IF Len(path) > 2 THEN {0, 300} ELSE {0}

PoolOf(paths, departureTimes, hops, routeIds, serviceIds) ==
    UNION {{[route_id |-> r, service_id |-> c, stops |-> p, t0 |-> t, hop |-> h,
             dwell |-> d] :
                t \in departureTimes, d \in Dwells(p), h \in hops,
                r \in routeIds, c \in serviceIds} :
           p \in paths}

(* what main is run with: the BFS finder takes max_transfers from the      *)
(* command line, the combined finder has none                              *)
MaxTransfersArg == 1
FindersUpTo(maxArg) == {[finder |-> "bfs", maxTransfers |-> k] : k \in 0..maxArg}
                           \cup {[finder |-> "combined", maxTransfers |-> 0]}
Finders == FindersUpTo(MaxTransfersArg)

InputsFor(geometries, tripLists, descendings, startTimes, routeTypes, finders) ==
    {[feed |-> Feed(g.stops, Numbered(trips), desc), stopA |-> 1, place |-> g.place,
      userTime |-> t, dayName |-> QueryDay, todayDate |-> QueryDate,
      routeType |-> rt, maxTransfers |-> f.maxTransfers, finder |-> f.finder] :
        g \in geometries, trips \in tripLists, desc \in descendings,
        t \in startTimes, rt \in routeTypes, f \in finders}

InputsOf(geometries, tripLists, descendings, startTimes, routeTypes) ==
    InputsFor(geometries, tripLists, descendings, startTimes, routeTypes, Finders)

(* The general family: every list of at most MaxTrips trips of a pool of   *)
(* running trips on four stops, one of them a loop through the source.  Stop 2 is within walking distance of the  *)
(* source or not; the place is next to the source, or next to stops 3 and 4 *)
(* with stop 4 nearer or farther than 0.35 km.                             *)
MaxTrips == 2

Paths == {<<1, 2>>, <<1, 3>>, <<1, 4>>, <<2, 3>>, <<2, 4>>, <<3, 4>>,
          <<1, 2, 3>>, <<1, 2, 4>>, <<1, 3, 4>>, <<2, 3, 4>>, <<1, 2, 1, 3>>}
DepartureTimes == {HMS(8, 0, 0), HMS(8, 12, 0), HMS(8, 15, 0)}
HopSeconds == 10 * 60
StartTimes == {HMS(7, 55, 0), HMS(8, 5, 0)}

Geometries ==
    {[stops |-> <<Stop(1, 0), Stop(2, p2), Stop(3, 200), Stop(4, 260)>>, place |-> pl] :
        p2 \in {30, 100}, pl \in {10, 240, 300}}

Init ==
    InitWith(InputsOf(Geometries,
                 TripLists(PoolOf(Paths, DepartureTimes, {HopSeconds}, {1}, {1}), MaxTrips),
                 {FALSE}, StartTimes, {""}))
Spec == Init /\ [][Next]_vars

(* The midnight family: the general family with short hops in the last     *)
(* quarter of an hour of the day.                                          *)
MidnightDepartures == {HMS(23, 50, 0), HMS(23, 55, 0), HMS(23, 57, 0)}
MidnightHopSeconds == 1 * 60
MidnightStart == HMS(23, 45, 0)

InitMidnight ==
    InitWith(InputsOf(Geometries,
                 TripLists(PoolOf(Paths, MidnightDepartures, {MidnightHopSeconds}, {1}, {1}),
                           MaxTrips),
                 {FALSE}, {MidnightStart}, {""}))
SpecMidnight == InitMidnight /\ [][Next]_vars

(* The continuation family: five stops of which 1, 2 and 3 are no targets  *)
(* when the place is near stops 4 and 5, so that a trip calling at 1, 2, 3 *)
(* is boarded at 1 and met again at 2.                                     *)
ContinuationGeometries ==
    {[stops |-> <<Stop(1, 0), Stop(2, 30), Stop(3, 100), Stop(4, 200), Stop(5, 260)>>,
      place |-> pl] : pl \in {10, 240}}
ContinuationPaths == {<<1, 2>>, <<1, 3>>, <<2, 3>>, <<3, 4>>, <<3, 5>>,
                      <<1, 2, 3>>, <<1, 2, 4>>, <<2, 3, 5>>}
ContinuationDepartures == {HMS(8, 0, 0), HMS(8, 30, 0)}

InitContinuation ==
    InitWith(InputsOf(ContinuationGeometries,
                 TripLists(PoolOf(ContinuationPaths, ContinuationDepartures, {HopSeconds},
                                  {1}, {1}),
                           MaxTrips),
                 {FALSE}, {HMS(7, 55, 0)}, {""}))
SpecContinuation == InitContinuation /\ [][Next]_vars

(* The overtaking family: two trips from stop 1 to stop 2, the one listed  *)
(* first arriving later; a trip from 2 to a target that only the early     *)
(* arrival catches; and a detour 2 -> 3 -> target that the late arrival    *)
(* catches.  The feeds are the sublists of these five trips, in this order *)
(* or reversed.                                                            *)
Run(path, t0) == [route_id |-> 1, service_id |-> 1, stops |-> path, t0 |-> t0,
                  hop |-> HopSeconds, dwell |-> 0]
OvertakeTrips == <<Run(<<1, 2>>, HMS(8, 10, 0)), Run(<<1, 2>>, HMS(8, 0, 0)),
                   Run(<<2, 5>>, HMS(8, 15, 0)), Run(<<2, 3>>, HMS(8, 30, 0)),
                   Run(<<3, 5>>, HMS(8, 45, 0))>>

Pick(s, indices) ==
    LET picked[n \in 0..Len(s)] ==
            IF n = 0 THEN <<>>
            ELSE IF n \in indices THEN Append(picked[n - 1], s[n]) ELSE picked[n - 1]
    IN  picked[Len(s)]
Sublists(s) == {Pick(s, indices) : indices \in SUBSET (1..Len(s))} \ {<<>>}

InitOvertake ==
    InitWith(InputsFor(ContinuationGeometries,
                  Sublists(OvertakeTrips) \cup Sublists(Reverse(OvertakeTrips)),
                  {FALSE}, {HMS(7, 55, 0)}, {""}, FindersUpTo(DEFAULT_MAX_TRANSFERS)))
SpecOvertake == InitOvertake /\ [][Next]_vars

(* The walking family: the continuation family with stop 3 moved within    *)
(* walking distance of the source, so that two stops are walkable.         *)
WalkGeometries ==
    {[stops |-> <<Stop(1, 0), Stop(2, 30), Stop(3, 45), Stop(4, 200), Stop(5, 260)>>,
      place |-> pl] : pl \in {10, 240}}

InitWalk ==
    InitWith(InputsOf(WalkGeometries,
                 TripLists(PoolOf(ContinuationPaths, ContinuationDepartures, {HopSeconds},
                                  {1}, {1}),
                           MaxTrips),
                 {FALSE}, {HMS(7, 55, 0)}, {""}))
SpecWalk == InitWalk /\ [][Next]_vars

(* The service family: three runs, each of either route and of a service   *)
(* that runs on the query date, on another weekday, that has ended, or     *)
(* that has not started; the query with and without a route_type filter.   *)
ServiceRuns == {[stops |-> <<1, 2>>, t0 |-> HMS(8, 0, 0)],
                [stops |-> <<2, 4>>, t0 |-> HMS(8, 15, 0)],
                [stops |-> <<1, 4>>, t0 |-> HMS(8, 0, 0)]}
ServicePool ==
    {[route_id |-> r, service_id |-> c, stops |-> run.stops, t0 |-> run.t0,
      hop |-> HopSeconds, dwell |-> 0] :
        run \in ServiceRuns, r \in {1, 2}, c \in {1, 2, 3, 4}}
ServiceGeometries ==
    {[stops |-> <<Stop(1, 0), Stop(2, 30), Stop(3, 200), Stop(4, 260)>>, place |-> 240]}

InitService ==
    InitWith(InputsOf(ServiceGeometries, TripLists(ServicePool, MaxTrips),
                      {FALSE}, {HMS(7, 55, 0)}, {"", "3"}))
SpecService == InitService /\ [][Next]_vars

(* The ordering family: stop_times.txt lists the rows of a trip in         *)
(* ascending or in descending stop_sequence; trips run in both directions  *)
(* along the line, and some have clock times that decrease along the trip. *)
OrderPaths == {<<1, 2>>, <<2, 4>>, <<1, 2, 4>>, <<4, 2, 1>>}
OrderDepartures == {HMS(8, 0, 0), HMS(8, 15, 0)}
BackwardsHopSeconds == 0 - 5 * 60

InitOrder ==
    InitWith(InputsOf(ServiceGeometries,
                      TripLists(PoolOf(OrderPaths, OrderDepartures,
                                       {HopSeconds, BackwardsHopSeconds}, {1}, {1}),
                                MaxTrips),
                      {FALSE, TRUE}, {HMS(7, 30, 0)}, {""}))
SpecOrder == InitOrder /\ [][Next]_vars

(* The no-service family: the service family with the place next to the   *)
(* source or next to stops 3 and 4.                                        *)
NoServiceGeometries ==
    {[stops |-> <<Stop(1, 0), Stop(2, 30), Stop(3, 200), Stop(4, 260)>>, place |-> pl] :
        pl \in {10, 240}}

InitNoService ==
    InitWith(InputsOf(NoServiceGeometries, TripLists(ServicePool, MaxTrips),
                      {FALSE}, {HMS(7, 55, 0)}, {"", "3"}))
SpecNoService == InitNoService /\ [][Next]_vars

(* The termination family: trips that run back to the source, among them  *)
(* a loop, so that the stop graph has cycles; the place is next to stops 3 *)
(* and 4 or beyond stop 4, where no target is within 0.35 km.  main runs   *)
(* to its end without interruption, hence the fairness condition Progress. *)
TerminationGeometries ==
    {[stops |-> <<Stop(1, 0), Stop(2, 30), Stop(3, 200), Stop(4, 260)>>, place |-> pl] :
        pl \in {240, 300}}
TerminationPaths == {<<1, 2>>, <<2, 1>>, <<2, 3>>, <<2, 4>>, <<1, 2, 1, 3>>}
TerminationDepartures == {HMS(8, 0, 0), HMS(8, 15, 0)}

InitTermination ==
    InitWith(InputsOf(TerminationGeometries,
                      TripLists(PoolOf(TerminationPaths, TerminationDepartures,
                                       {HopSeconds}, {1}, {1}),
                                MaxTrips),
                      {FALSE}, {HMS(7, 55, 0)}, {""}))

(* Weak fairness of Next.  Next is enabled exactly in the states where    *)
(* main has not ended, so WF_vars(Next) is written without ENABLED.        *)
Progress == []<>(pc \in {"done", "error"}) \/ []<><<Next>>_vars

SpecTermination == InitTermination /\ [][Next]_vars /\ Progress

(* The nearest-stop family: stops.txt lists the four stops in any order;   *)
(* the place is halfway between stops 1 and 2 or between stops 3 and 4, so *)
(* that two stops are equally distant; stop 3 may have no coordinates.     *)
Orders(s) ==
    {[i \in 1..Len(s) |-> s[order[i]]] :
        order \in {f \in [1..Len(s) -> 1..Len(s)] :
                      \A i, j \in 1..Len(s) : f[i] = f[j] => i = j}}

NearestStopLists ==
    UNION {Orders(<<Stop(1, 0), Stop(2, 30),
                    [stop_id |-> 3, pos |-> 200, has_coord |-> coord3], Stop(4, 280)>>) :
           coord3 \in BOOLEAN}
NearestGeometries == {[stops |-> s, place |-> pl] : s \in NearestStopLists, pl \in {15, 240}}
NearestPaths == {<<1, 2>>, <<1, 4>>, <<2, 3>>, <<2, 4>>}

InitNearest ==
    InitWith(InputsOf(NearestGeometries,
                      TripLists(PoolOf(NearestPaths, {HMS(8, 0, 0)}, {HopSeconds}, {1}, {1}),
                                MaxTrips),
                      {FALSE}, {HMS(7, 55, 0)}, {""}))
SpecNearest == InitNearest /\ [][Next]_vars

(* The direct-trip family: find_next_transit.js --to-place on four stops.  *)
(* Stop 2 is 0.3 km or 1 km from the source; the place lies between stops  *)
(* 3 and 4, nearer to one of them or halfway.                              *)
TransitGeometries ==
    {[stops |-> <<Stop(1, 0), Stop(2, p2), Stop(3, 200), Stop(4, 276)>>, place |-> pl] :
        p2 \in {30, 100}, pl \in {235, 238, 240, 250}}
TransitPaths == Paths \cup {<<1, 3, 1>>}
TransitFinder == {[finder |-> "transit", maxTransfers |-> 0]}

InitTransit ==
    InitWith(InputsFor(TransitGeometries,
                       TripLists(PoolOf(TransitPaths, DepartureTimes, {HopSeconds}, {1}, {1}),
                                 MaxTrips),
                       {FALSE}, StartTimes, {""}, TransitFinder))
SpecTransit == InitTransit /\ [][NextTransit]_vars

(* The load family: the termination family with none or one of the files  *)
(* of the feed absent from the data directory.                             *)
RequiredFiles == {"stops", "routes", "calendar", "trips", "stop_times"}

Withhold(inputs, absences) ==
    {[i EXCEPT !.feed.missing = m] : i \in inputs, m \in absences}

InitLoad ==
    InitWith(Withhold(InputsOf(TerminationGeometries,
                               TripLists(PoolOf(TerminationPaths, TerminationDepartures,
                                                {HopSeconds}, {1}, {1}),
                                         MaxTrips),
                               {FALSE}, {HMS(7, 55, 0)}, {""}),
                      {{}} \cup {{f} : f \in RequiredFiles}))
SpecLoad == InitLoad /\ [][Next]_vars

(* The frontier family: two trips from the source, one of them waiting at  *)
(* stop 3 before it runs on to stop 2, and trips between stops 2 and 3 and *)
(* on to a target, so that the frontier holds states of equal priority and *)
(* states with different numbers of transfers at the same time.  The feeds *)
(* are the sublists of these six trips, in this order or reversed.         *)
FrontierTrips == <<Run(<<1, 2>>, HMS(8, 0, 0)),
                   [Run(<<1, 3, 2>>, HMS(8, 0, 0)) EXCEPT !.dwell = 300],
                   Run(<<2, 3>>, HMS(8, 20, 0)), Run(<<1, 3>>, HMS(8, 5, 0)),
                   Run(<<3, 2>>, HMS(8, 30, 0)), Run(<<3, 5>>, HMS(8, 40, 0))>>

InitFrontier ==
    InitWith(InputsFor(ContinuationGeometries,
                       Sublists(FrontierTrips) \cup Sublists(Reverse(FrontierTrips)),
                       {FALSE}, {HMS(7, 55, 0)}, {""}, Finders))
SpecFrontier == InitFrontier /\ [][Next]_vars

(* The best-route family: the two stops nearest to the place are more     *)
(* than 100 km apart (stop 5 is 101 km from stop 6, the place 0.2 km or    *)
(* 0.4 km beyond stop 6).  A chain of trips reaches stop 5 with two        *)
(* transfers and stop 6 with three; one trip calls at both.  The feeds are *)
(* the sublists of these six trips, in this order or reversed.             *)
BestGeometries ==
    {[stops |-> <<Stop(1, 0), Stop(2, 30), Stop(3, 100), Stop(4, 150),
                  Stop(5, 9920), Stop(6, 20000)>>,
      place |-> pl] : pl \in {20020, 20040}}
BestTrips == <<Run(<<1, 2>>, HMS(8, 0, 0)), Run(<<2, 3>>, HMS(8, 15, 0)),
               Run(<<3, 5>>, HMS(8, 30, 0)), Run(<<3, 4>>, HMS(8, 30, 0)),
               Run(<<4, 6>>, HMS(8, 45, 0)), Run(<<1, 5, 6>>, HMS(8, 0, 0))>>

InitBest ==
    InitWith(InputsFor(BestGeometries,
                       Sublists(BestTrips) \cup Sublists(Reverse(BestTrips)),
                       {FALSE}, {HMS(7, 55, 0)}, {""}, Finders))
SpecBest == InitBest /\ [][Next]_vars

(* The walkable family: MAX_NEARBY_STOPS_TO_CHECK or one fewer stops lie   *)
(* within 0.5 km of the source, 0.1 km apart; two more stops are the       *)
(* targets.  The feeds are the sublists of four trips, in this order or    *)
(* reversed, that leave from the source, from the nearest and from the     *)
(* farthest of the stops around it.                                        *)
StopsAround(n) ==
    [i \in 1..(n + 1) |-> Stop(i, (i - 1) * 10)] \o <<Stop(n + 2, 200), Stop(n + 3, 260)>>

WalkableGeometries ==
    {[stops |-> StopsAround(n), place |-> 240] :
        n \in {MAX_NEARBY_STOPS_TO_CHECK - 1, MAX_NEARBY_STOPS_TO_CHECK}}

WalkableTrips(n) == <<Run(<<1, 2>>, HMS(8, 0, 0)), Run(<<2, n + 2>>, HMS(8, 15, 0)),
                      Run(<<n + 1, n + 3>>, HMS(8, 15, 0)), Run(<<1, n + 3>>, HMS(8, 0, 0))>>

InitWalkable ==
    InitWith(UNION {InputsFor({g},
                              Sublists(WalkableTrips(Len(g.stops) - 3))
                                  \cup Sublists(Reverse(WalkableTrips(Len(g.stops) - 3))),
                              {FALSE}, {HMS(7, 55, 0)}, {""}, Finders) :
                        g \in WalkableGeometries})
SpecWalkable == InitWalkable /\ [][Next]_vars

(* The single-expansion family: the place is beyond stop 5, so that no    *)
(* target is within 0.35 km (stop 5 at 0.4 km, stop 4 at 1 km).  Stops 2   *)
(* and 3 are reached from the source; stop 4 is reached from stop 2 and    *)
(* stop 5 from stop 3.  The feeds are the sublists of these six trips, in  *)
(* this order or reversed.                                                 *)
SingleGeometries ==
    {[stops |-> <<Stop(1, 0), Stop(2, 30), Stop(3, 100), Stop(4, 200), Stop(5, 260)>>,
      place |-> 300]}
SingleTrips == <<Run(<<1, 2>>, HMS(8, 0, 0)), Run(<<1, 3>>, HMS(8, 5, 0)),
                 Run(<<2, 4>>, HMS(8, 15, 0)), Run(<<3, 5>>, HMS(8, 30, 0)),
                 Run(<<2, 3>>, HMS(8, 15, 0)), Run(<<1, 4, 5>>, HMS(8, 10, 0))>>

InitSingle ==
    InitWith(InputsFor(SingleGeometries,
                       Sublists(SingleTrips) \cup Sublists(Reverse(SingleTrips)),
                       {FALSE}, {HMS(7, 55, 0)}, {""}, Finders))
SpecSingle == InitSingle /\ [][Next]_vars

(* The benchmark family: MaxStops stops or fewer, with the stop_ids 1, 2,   *)
(* ..., and MaxConcurrency workers or fewer; no finder runs in the         *)
(* benchmark's own process.                                                *)
MaxStops == 3
MaxConcurrency == 3

InitBenchmark ==
    /\ input = [finder |-> "none"]
    /\ pc = "idle"
    /\ targetStopsList = <<>>
    /\ preloadedData = [validTripIds |-> {}, tripRouteMap |-> <<>>, stopTimeLines |-> <<>>]
    /\ nearbyStops = <<>>
    /\ search = idle
    /\ originalResult = null
    /\ nearbyResults = <<>>
    /\ nearbyIndex = 0
    /\ foundDirectRoute = FALSE
    /\ result = noJourney
    /\ \E n \in 0..MaxStops, concurrency \in 1..MaxConcurrency :
           benchmark = [notStarted EXCEPT !.pc = "start",
                                          !.stops = [i \in 1..n |-> i],
                                          !.concurrency = concurrency]
SpecBenchmark == InitBenchmark /\ [][NextBenchmark]_vars

----------------------------------------------------------------------------
(* Properties *)

TripsOf(route) == {route.path[i].trip_id : i \in 1..Len(route.path)}

(* a call of the BFS finder's bfsSearch has just returned a route *)
BfsReturnedRoute == input.finder = "bfs" /\ search.returned /\ search.value # null

(* C1: a route returned by the BFS finder's bfsSearch(.., K) has           *)
(* numTransfers <= K and rides at most K + 1 distinct trips.               *)
C1_TransferBound ==
    BfsReturnedRoute =>
        /\ search.value.numTransfers <= search.maxTransfers
        /\ Cardinality(TripsOf(search.value)) <= search.maxTransfers + 1

(* a call of bfsSearch (of either finder) has just returned a route *)
ReturnedRoute == search.returned /\ search.value # null

(* C2: in a returned route, a leg on another trip than the leg before it   *)
(* departs at least TRANSFER_TIME_MINUTES minutes after that leg arrives.  *)
C2_TransferBuffer ==
    ReturnedRoute =>
        \A i \in 1..(Len(search.value.path) - 1) :
            LET leg == search.value.path[i]
                nextLeg == search.value.path[i + 1]
            IN  leg.trip_id # nextLeg.trip_id =>
                    nextLeg.departure - leg.arrival >= TRANSFER_TIME_MINUTES * 60

SameTripAdjacent(path) ==
    \E i \in 1..(Len(path) - 1) : path[i].trip_id = path[i + 1].trip_id

(* C3: in a returned route any two consecutive legs ride different trips,  *)
(* and a non-empty returned path has numTransfers + 1 legs.                *)
C3_AdjacentLegsChangeTrip ==
    ReturnedRoute =>
        /\ ~SameTripAdjacent(search.value.path)
        /\ Len(search.value.path) > 0 =>
               Len(search.value.path) = search.value.numTransfers + 1

(* a route of two or more legs is returned while the frontier holds a      *)
(* state that stayed on its trip through an intermediate stop              *)
C3_Witness ==
    /\ ReturnedRoute
    /\ Len(search.value.path) >= 2
    /\ \E i \in 1..Len(search.queue) : SameTripAdjacent(search.queue[i].path)

(* The valid trips of the query, read off the feed. *)
ActiveService(serviceId) ==
    \E c \in Range(input.feed.calendar) :
        /\ c.service_id = serviceId
        /\ input.dayName \in c.days
        /\ c.start_date <= input.todayDate /\ input.todayDate <= c.end_date

FilteredRoute(routeId) ==
    \/ input.routeType = ""
    \/ \E r \in Range(input.feed.routes) :
           r.route_id = routeId /\ r.route_type = input.routeType

ValidTripIdsOfFeed ==
    {t.trip_id : t \in {x \in Range(input.feed.trips) :
                           ActiveService(x.service_id) /\ FilteredRoute(x.route_id)}}

(* some valid trip leaves `source` after startTime and calls later at a target *)
DirectTripExists(source, startTime) ==
    \E r1 \in Range(input.feed.stop_times), r2 \in Range(input.feed.stop_times) :
        /\ r1.trip_id = r2.trip_id /\ r1.trip_id \in ValidTripIdsOfFeed
        /\ r1.stop_id = source /\ r1.dep > startTime
        /\ r2.seq > r1.seq /\ r2.stop_id \in TargetStops(targetStopsList)

(* C4: direct dominates.  When a valid trip leaves the source after the    *)
(* start time and calls later at a target stop, bfsSearch returns a route  *)
(* with 0 transfers and so does main.                                      *)
C4_DirectDominates ==
    /\ (pc = "search" /\ search.returned
            /\ DirectTripExists(search.startStop, input.userTime)) =>
           (search.value # null /\ search.value.numTransfers = 0)
    /\ (pc = "done" /\ DirectTripExists(input.stopA, input.userTime)) =>
           (result.route # null /\ result.route.numTransfers = 0)

(* The stops and arrival times that a ride on a valid trip reaches from    *)
(* `stop` when boarding at `earliest` or later (strictly later if strict). *)
RidesFrom(stop, earliest, strict) ==
    {<<r2.stop_id, r2.arr>> :
        r2 \in {x \in Range(input.feed.stop_times) :
                   \E r1 \in Range(input.feed.stop_times) :
                       /\ r1.trip_id = x.trip_id /\ r1.trip_id \in ValidTripIdsOfFeed
                       /\ r1.stop_id = stop /\ x.seq > r1.seq
                       /\ IF strict THEN r1.dep > earliest ELSE r1.dep >= earliest}}

(* where a valid journey of `rides` rides from `start` can be: it leaves   *)
(* after startTime and waits TRANSFER_TIME_MINUTES before every next ride  *)
ReachedBy(start, startTime, rides) ==
    LET reached[n \in 1..rides] ==
            IF n = 1 THEN RidesFrom(start, startTime, TRUE)
            ELSE UNION {RidesFrom(at[1], at[2] + TRANSFER_TIME_MINUTES * 60, FALSE) :
                            at \in reached[n - 1]}
    IN  reached[rides]

(* a valid journey with `transfers` transfers from `start` ends at a target *)
JourneyExists(start, startTime, transfers) ==
    \E at \in ReachedBy(start, startTime, transfers + 1) :
        at[1] \in TargetStops(targetStopsList)

(* C5: fewest transfers.  When bfsSearch returns a route, no valid journey *)
(* from the same start stop within K transfers has fewer transfers.        *)
C5_FewestTransfers ==
    (pc = "search" /\ ReturnedRoute) =>
        \A m \in 0..Min(search.maxTransfers, search.value.numTransfers - 1) :
            ~JourneyExists(search.startStop, input.userTime, m)

(* C6: when no target stop is reachable from the start stop by a valid     *)
(* journey with at most K transfers, bfsSearch returns null.               *)
C6_NullWhenUnreachable ==
    (/\ pc = "search" /\ search.returned
     /\ search.startStop \notin TargetStops(targetStopsList)
     /\ \A m \in 0..search.maxTransfers :
            ~JourneyExists(search.startStop, input.userTime, m)) =>
        search.value = null

(* the empty-leg journey at the source *)
EmptyLegJourneyAtSource(route) ==
    /\ route # null
    /\ route.path = <<>>
    /\ route.finalStop = input.stopA
    /\ \E i \in 1..Len(targetStopsList) :
           /\ targetStopsList[i].stop_id = input.stopA
           /\ route.distanceToDestination = targetStopsList[i].distance

(* C7: source-is-target.  When the source stop is a target stop, the       *)
(* result of the query is the empty-leg journey at the source.             *)
C7_SourceIsTarget ==
    (pc = "done" /\ input.stopA \in TargetStops(targetStopsList)) =>
        EmptyLegJourneyAtSource(result.route)

(* the score of a journey of at least one leg, with its walk if any *)
JourneyScore(route, walkMinutes) ==
    walkMinutes
      + timeDifferenceMinutes(route.path[1].departure, route.path[Len(route.path)].arrival)
      + 30 * route.numTransfers

(* the journeys of at least one leg that the searches from the source and  *)
(* from every walkable stop yield, each with the minutes of its walk       *)
ScoredJourneys ==
    LET fromSource == bfsSearchCombined(input.stopA, input.userTime, targetStopsList,
                                        preloadedData)
        fromStop(i) == bfsSearchCombined(nearbyStops[i].stop_id, input.userTime,
                                         targetStopsList, preloadedData)
    IN  (IF Len(fromSource.path) > 0 THEN {[route |-> fromSource, walk |-> 0]} ELSE {})
          \cup {[route |-> fromStop(i), walk |-> WalkTime(nearbyStops[i].distance)] :
                   i \in {j \in 1..Len(nearbyStops) : Len(fromStop(j).path) > 0}}

(* C8: walk-fallback selection.  When the search from the source is not    *)
(* direct, so that the walkable stops are consulted, the journey the       *)
(* combined finder returns has the smallest score among the journeys found *)
(* from the source and from every walkable stop.                           *)
C8_SmallestScore ==
    (/\ pc = "done" /\ input.finder = "combined"
     /\ ~(originalResult # null /\ originalResult.numTransfers = 0)) =>
        \A c \in ScoredJourneys :
            /\ result.route # null
            /\ Len(result.route.path) > 0
            /\ JourneyScore(result.route, result.walk.time) <= JourneyScore(c.route, c.walk)

(* every route the program holds: in the frontier, as best route, as the   *)
(* value bfsSearch returned, and in the results of main                    *)
HeldPaths ==
    {search.queue[i].path : i \in 1..Len(search.queue)}
      \cup {search.bestRoute.path, search.value.path, originalResult.path,
            result.route.path}
      \cup {nearbyResults[i].route.path : i \in 1..Len(nearbyResults)}

HeldLegs == UNION {Range(path) : path \in HeldPaths}

(* the connections that getDirectConnections produces at any stop for the  *)
(* start time of the query                                                 *)
ProducedConnections ==
    IF pc = "start" THEN {}
    ELSE UNION {Range(getDirectConnections(s.stop_id, input.userTime, preloadedData)) :
                   s \in Range(input.feed.stops)}

(* C9: service activeness.  Every leg of every frontier state and of every *)
(* returned route rides a valid trip of the feed, and no connection is     *)
(* produced from a trip outside the valid-trip set.                        *)
C9_ServiceActiveness ==
    /\ \A leg \in HeldLegs : leg.trip_id \in ValidTripIdsOfFeed
    /\ \A conn \in ProducedConnections : conn.trip_id \in ValidTripIdsOfFeed

(* a route is returned although a trip that is not valid leaves the start  *)
(* stop of the search after the start time                                 *)
C9_Witness ==
    /\ ReturnedRoute
    /\ Len(search.value.path) > 0
    /\ \E row \in Range(input.feed.stop_times) :
           /\ row.trip_id \notin ValidTripIdsOfFeed
           /\ row.stop_id = search.startStop
           /\ row.dep > input.userTime
           /\ \E later \in Range(input.feed.stop_times) :
                  later.trip_id = row.trip_id /\ later.seq > row.seq

(* the clock times of every trip are non-decreasing along the trip *)
MonotoneFeed ==
    \A r1 \in Range(input.feed.stop_times), r2 \in Range(input.feed.stop_times) :
        /\ r1.arr <= r1.dep
        /\ (r1.trip_id = r2.trip_id /\ r1.seq < r2.seq) => r1.dep <= r2.arr

(* the leg boards a row of its trip and alights at a row of greater        *)
(* stop_sequence of the same trip                                          *)
LegFollowsTrip(leg) ==
    \E r1 \in Range(input.feed.stop_times), r2 \in Range(input.feed.stop_times) :
        /\ r1.trip_id = leg.trip_id /\ r2.trip_id = leg.trip_id
        /\ r1.stop_id = leg.from /\ r1.dep = leg.departure
        /\ r2.stop_id = leg.to /\ r2.arr = leg.arrival
        /\ r2.seq > r1.seq

(* C10: trip monotonicity.  Every leg of a returned route alights at a     *)
(* greater stop_sequence of its trip than it boards, and arrives no        *)
(* earlier than it departs when the feed's times are non-decreasing.       *)
C10_TripMonotonicity ==
    ReturnedRoute =>
        \A leg \in Range(search.value.path) :
            /\ LegFollowsTrip(leg)
            /\ MonotoneFeed => leg.arrival >= leg.departure

(* a route is returned whose first trip is listed in descending            *)
(* stop_sequence in stop_times.txt                                         *)
C10_Witness ==
    /\ ReturnedRoute
    /\ Len(search.value.path) > 0
    /\ MonotoneFeed
    /\ \E i \in 1..(Len(input.feed.stop_times) - 1) :
           /\ input.feed.stop_times[i].trip_id = search.value.path[1].trip_id
           /\ input.feed.stop_times[i + 1].trip_id = search.value.path[1].trip_id
           /\ input.feed.stop_times[i].seq > input.feed.stop_times[i + 1].seq

----------------------------------------------------------------------------
(* C11: whenever the journey that main returns contains a walk (BFS finder, *)
(* combined finder, or find_next_transit.js --to-place), the walk is at     *)
(* most 0.5 km long, does not lead to the source stop, and lasts            *)
(* ceil(distance in metres / 80) minutes.                                   *)
WalkMetres(walk) == walk.distance * 10

C11_WalkBound ==
    (pc = "done" /\ result.walk # noWalk) =>
        /\ result.walk.distance <= 50
        /\ result.walk.to # input.stopA
        /\ result.walk.time * 80 >= WalkMetres(result.walk)
        /\ (result.walk.time - 1) * 80 < WalkMetres(result.walk)

----------------------------------------------------------------------------
(* C12: when the service-day filter leaves no valid trip (no service is    *)
(* active on the date, or no route has the filtered route_type), main      *)
(* returns no journey, whatever the source stop and the target set.        *)
NoValidTrip == preloadedData.validTripIds = {}

C12_NoServiceNoJourney ==
    (pc = "done" /\ NoValidTrip) => result = noJourney

----------------------------------------------------------------------------
(* C13: bfsSearch always terminates.  It pops at most MAX_ITERATIONS       *)
(* states (20000 in the BFS finder, 50000 in the combined finder); every   *)
(* search that has been started returns; and when the loop has run, the    *)
(* value returned is the best candidate recorded so far, null if there is  *)
(* none.                                                                   *)
IterationCap == IF input.finder = "bfs" THEN MAX_ITERATIONS ELSE MAX_ITERATIONS_COMBINED

IterationsWithinCap == search.iterations <= IterationCap

ExitReturnsBest ==
    (search.returned /\ search.iterations > 0) => search.value = search.bestRoute

SearchRunning == pc = "search" /\ ~search.returned

----------------------------------------------------------------------------
(* C14: findBestDirectTrip selects, among the eligible legs (the earliest  *)
(* eligible departure of every reachable target stop), the leg to the      *)
(* target nearest to the destination, and among equally distant targets    *)
(* the leg with the earliest departure.                                    *)

(* the stop from which the returned leg was searched *)
LegSource == IF result.walk = noWalk THEN input.stopA ELSE result.walk.to

ValidRows == {row \in Range(preloadedData.stopTimeLines) :
                 row.trip_id \in preloadedData.validTripIds}

(* the departures from stopA, strictly after userTime, of valid trips that *)
(* call at stopB later in the trip                                         *)
EligibleDepartures(stopA, stopB) ==
    {a.dep : a \in {r \in ValidRows :
                       /\ r.stop_id = stopA
                       /\ r.dep > input.userTime
                       /\ \E b \in ValidRows : /\ b.trip_id = r.trip_id
                                               /\ b.stop_id = stopB
                                               /\ r.seq < b.seq}}

ReachableTargets(stopA) ==
    {stopB \in TargetStops(targetStopsList) : EligibleDepartures(stopA, stopB) # {}}

EarliestDeparture(stopA, stopB) ==
    CHOOSE d \in EligibleDepartures(stopA, stopB) :
        \A other \in EligibleDepartures(stopA, stopB) : d <= other

NoTripCallsTwice ==
    \A a, b \in ValidRows : (a.trip_id = b.trip_id /\ a.stop_id = b.stop_id) => a = b

TransitReturnedLeg == input.finder = "transit" /\ pc = "done" /\ result.trip # noTrip

C14_SelectionRule ==
    (TransitReturnedLeg /\ NoTripCallsTwice) =>
        LET chosen == result.trip.stopB
            distanceTo(stopB) == getMinDistanceToTarget(targetStopsList, stopB)
        IN  \A stopB \in ReachableTargets(LegSource) :
                \/ distanceTo(chosen) < distanceTo(stopB)
                \/ /\ distanceTo(chosen) = distanceTo(stopB)
                   /\ result.trip.departure_time <= EarliestDeparture(LegSource, stopB)

----------------------------------------------------------------------------
(* C15: findBestDirectTrip, called for the source stop, returns a leg if   *)
(* and only if an eligible leg exists: a valid trip that leaves the source *)
(* strictly after the given time and calls at a candidate stop with a      *)
(* strictly greater stop_sequence.  A returned leg is eligible; with no    *)
(* valid trip or no eligible leg the result is null.                       *)
TransitSearched == input.finder = "transit" /\ pc # "start"

DirectLegFound == pc = "done" /\ result.walk = noWalk /\ result.trip # noTrip

EligibleLeg(stopA, leg) ==
    \E a, b \in ValidRows :
        /\ a.trip_id = leg.trip_id /\ b.trip_id = leg.trip_id
        /\ a.stop_id = stopA /\ b.stop_id = leg.stopB
        /\ leg.stopB \in TargetStops(targetStopsList)
        /\ a.seq < b.seq
        /\ a.dep > input.userTime
        /\ a.dep = leg.departure_time /\ b.arr = leg.arrival_at_B

C15_LegIffEligible ==
    TransitSearched =>
        /\ DirectLegFound <=> (ReachableTargets(input.stopA) # {})
        /\ DirectLegFound => EligibleLeg(input.stopA, result.trip)

----------------------------------------------------------------------------
(* C16: findNearestStops(P, N) returns the first N stops (all of them if   *)
(* fewer than N have coordinates) of the stops sorted by distance to P     *)
(* ascending and, at equal distance, by stop_id ascending.                 *)
StopsWithCoordinates == {s \in Range(input.feed.stops) : s.has_coord}

(* a precedes b in the order (distance to the place, stop_id) *)
NearerOrLowerId(a, b) ==
    LET da == calculateDistance(input.place, a.pos)
        db == calculateDistance(input.place, b.pos)
    IN  da < db \/ (da = db /\ a.stop_id < b.stop_id)

NearestComputed == input.finder # "transit" /\ pc \notin {"start", "error"}

C16_NearestStopsOrder ==
    NearestComputed =>
        LET list == targetStopsList
            returned == TargetStops(list)
        IN  /\ Len(list) = Min(MAX_DESTINATIONS_NEAR_PLACE, Cardinality(StopsWithCoordinates))
            /\ \A i \in 1..Len(list) :
                  /\ list[i].stop_id \in {s.stop_id : s \in StopsWithCoordinates}
                  /\ list[i].distance = calculateDistance(input.place, list[i].pos)
            /\ \A i, j \in 1..Len(list) : i < j => NearerOrLowerId(list[i], list[j])
            /\ \A s \in StopsWithCoordinates :
                  s.stop_id \notin returned =>
                      \A i \in 1..Len(list) : NearerOrLowerId(list[i], s)

----------------------------------------------------------------------------
(* C17: whenever one of stops.txt, routes.txt, calendar.txt, trips.txt and *)
(* stop_times.txt is absent, loading the feed fails: main ends with the    *)
(* error and no search is run on an empty table.                           *)
C17_MissingFileAborts ==
    (input.feed.missing \cap RequiredFiles # {}) => pc \in {"start", "error"}

(* the part of C17 that the code keeps: without stop_times.txt main ends   *)
(* with the error                                                          *)
MissingStopTimesAborts ==
    ("stop_times" \in input.feed.missing) => pc \in {"start", "error"}

(* a query that ran to the end of main although a file was absent *)
RanWithoutAFile == pc = "done" /\ input.feed.missing # {}

----------------------------------------------------------------------------
(* C18: completeness.  When a valid journey from the start stop to a       *)
(* target exists that leaves after the start time, waits                   *)
(* TRANSFER_TIME_MINUTES at every change and has at most K transfers, and  *)
(* the iteration cap is not reached, bfsSearch returns a route.            *)
JourneyWithinK ==
    \E m \in 0..search.maxTransfers :
        JourneyExists(search.startStop, input.userTime, m)

C18_Completeness ==
    (/\ pc = "search" /\ search.returned
     /\ search.iterations < IterationCap
     /\ JourneyWithinK) =>
        search.value # null

(* C18 for feeds in which every stop is reached at one time only per       *)
(* number of transfers: no two valid journeys with the same number of      *)
(* rides end at the same stop at different times                           *)
OneArrivalPerStop ==
    \A n \in 1..(search.maxTransfers + 1) :
        \A a, b \in ReachedBy(search.startStop, input.userTime, n) :
            a[1] = b[1] => a[2] = b[2]

CompleteWithOneArrival ==
    (/\ pc = "search" /\ search.returned
     /\ search.iterations < IterationCap
     /\ OneArrivalPerStop
     /\ JourneyWithinK) =>
        search.value # null

----------------------------------------------------------------------------
(* the priority of the frontier: fewer transfers first, then the smaller   *)
(* distance to the nearest target                                          *)
PriorityLess(a, b) ==
    \/ a.numTransfers < b.numTransfers
    \/ a.numTransfers = b.numTransfers /\ a.distanceToTarget < b.distanceToTarget

PriorityEqual(a, b) ==
    a.numTransfers = b.numTransfers /\ a.distanceToTarget = b.distanceToTarget

FrontierSorted ==
    \A i, j \in 1..Len(search.queue) :
        i < j => ~PriorityLess(search.queue[j], search.queue[i])

QueueItemsDistinct ==
    \A i, j \in 1..Len(search.queue) : i # j => search.queue[i] # search.queue[j]

PositionIn(queue, item) == CHOOSE i \in 1..Len(queue) : queue[i] = item

(* the step is one iteration of the while loop of bfsSearch *)
IsIteration ==
    /\ pc = "search" /\ ~search.returned /\ Len(search.queue) > 0
    /\ search'.iterations = search.iterations + 1

(* the position, among the connections of the popped state, of the         *)
(* connection that a state inserted in this iteration was made from        *)
ConnectionOf(item) ==
    LET current == Head(search.queue)
        connections == getDirectConnections(current.stop, current.time, preloadedData)
        madeFrom(conn) == NewLeg(current, conn) = item.path[Len(item.path)]
    IN  FirstIndex(connections, madeFrom, 1)

(* what an iteration does to the frontier: the states left after the pop   *)
(* stay, in their order; a state put in by the iteration stands before the *)
(* old states of strictly greater priority only, and after the states of   *)
(* equal priority that were put in before it                               *)
StableInsertion ==
    LET old == Tail(search.queue)
        new == search'.queue
        isOld(k) == new[k] \in Range(old)
    IN  /\ \A i \in 1..Len(old) : old[i] \in Range(new)
        /\ \A i, j \in 1..Len(old) :
               i < j => PositionIn(new, old[i]) < PositionIn(new, old[j])
        /\ \A k, j \in 1..Len(new) :
               (k < j /\ ~isOld(k) /\ isOld(j)) => PriorityLess(new[k], new[j])
        /\ \A k, j \in 1..Len(new) :
               (k < j /\ ~isOld(k) /\ ~isOld(j) /\ PriorityEqual(new[k], new[j])) =>
                   ConnectionOf(new[k]) < ConnectionOf(new[j])

(* the state popped next has no higher priority than the one popped now *)
PopOrder ==
    Len(search'.queue) > 0 => ~PriorityLess(Head(search'.queue), Head(search.queue))

(* C19: frontier order.  At every step of bfsSearch the queue is sorted by *)
(* (numTransfers, distanceToTarget) ascending, a state is inserted after   *)
(* all states of equal priority, and the states are popped in that order.  *)
C19_FrontierOrder ==
    /\ [](FrontierSorted /\ QueueItemsDistinct)
    /\ [][IsIteration => (StableInsertion /\ PopOrder)]_vars

(* a frontier in which a state that is not a first ride stands before a    *)
(* state with more transfers, and two states have the same priority        *)
C19_Witness ==
    /\ pc = "search" /\ ~search.returned /\ search.iterations >= 2
    /\ \E k, j \in 1..Len(search.queue) :
           /\ k < j /\ Len(search.queue[k].path) >= 2
           /\ PriorityLess(search.queue[k], search.queue[j])
    /\ \E k, j \in 1..Len(search.queue) :
           k < j /\ PriorityEqual(search.queue[k], search.queue[j])

----------------------------------------------------------------------------
(* a route is better than another: strictly fewer transfers, or as many    *)
(* transfers and strictly nearer to the place                              *)
RouteBetter(a, b) ==
    \/ a.numTransfers < b.numTransfers
    \/ /\ a.numTransfers = b.numTransfers
       /\ a.distanceToDestination < b.distanceToDestination

(* the step is an iteration of bfsSearch that expands the popped state *)
ExpandsNow == IsIteration /\ search'.visited # search.visited

(* the accumulated search after the first n connections of the popped     *)
(* state have gone through the body of the for loop                        *)
AfterConnections(n) ==
    LET current == Head(search.queue)
        connections == getDirectConnections(current.stop, current.time, preloadedData)
        start == [search EXCEPT !.queue = Tail(search.queue),
                                !.iterations = search.iterations + 1,
                                !.visited = search.visited
                                               \cup {<<current.stop, current.numTransfers>>}]
    IN  IF input.finder = "bfs"
        THEN ConnLoopBfs(start, current, SubSeq(connections, 1, n), targetStopsList,
                         search.maxTransfers)
        ELSE ConnLoopCombined(start, current, SubSeq(connections, 1, n), targetStopsList,
                              search.maxTransfers)

TransfersWith(current, conn) ==
    IF IsTransfer(current, conn) THEN current.numTransfers + 1 ELSE current.numTransfers

(* the candidate that a connection to a target stop makes *)
CandidateOf(current, conn) ==
    [path |-> Append(current.path, NewLeg(current, conn)),
     finalStop |-> conn.stop_id,
     finalTime |-> conn.arrival_time,
     numTransfers |-> TransfersWith(current, conn),
     distanceToDestination |-> getMinDistanceToTarget(targetStopsList, conn.stop_id)]

(* the for loop, in the state acc, compares the candidate of conn with the *)
(* best route                                                              *)
Evaluated(acc, current, conn) ==
    /\ ~acc.returned
    /\ compareTime(conn.departure_time, nextAvailableTime(current)) >= 0
    /\ conn.stop_id \in TargetStops(targetStopsList)
    /\ input.finder = "combined" =>
           /\ TransfersWith(current, conn) <= search.maxTransfers
           /\ ~(/\ acc.bestRoute # null /\ acc.bestRoute.numTransfers = 0
                /\ TransfersWith(current, conn) > 0)
           /\ ~(/\ acc.bestRoute # null /\ acc.bestRoute.numTransfers = 1
                /\ TransfersWith(current, conn) >= 2)

(* the n-th connection of the popped state is evaluated, and replaces the  *)
(* best route exactly when it is better                                    *)
EvaluatedAt(n) ==
    LET current == Head(search.queue)
        connections == getDirectConnections(current.stop, current.time, preloadedData)
    IN  Evaluated(AfterConnections(n - 1), current, connections[n])

ReplacesIffBetter(n) ==
    LET current == Head(search.queue)
        connections == getDirectConnections(current.stop, current.time, preloadedData)
        candidate == CandidateOf(current, connections[n])
        before == AfterConnections(n - 1).bestRoute
    IN  (AfterConnections(n).bestRoute = candidate)
            <=> (before = null \/ RouteBetter(candidate, before))

ConnectionsNow ==
    1..Len(getDirectConnections(Head(search.queue).stop, Head(search.queue).time,
                                preloadedData))

(* C20: best-candidate update.  A candidate that bfsSearch evaluates       *)
(* replaces the best route if and only if it has strictly fewer transfers, *)
(* or as many transfers and a strictly smaller distance to the place, so   *)
(* that the best route is minimal in (transfers, distance) among the       *)
(* candidates evaluated.                                                   *)
C20_BestUpdate ==
    [][ExpandsNow => \A n \in ConnectionsNow : EvaluatedAt(n) => ReplacesIffBetter(n)]_vars

(* C20 for the BFS finder alone *)
BestUpdateBfs ==
    [][(ExpandsNow /\ input.finder = "bfs") =>
           \A n \in ConnectionsNow : EvaluatedAt(n) => ReplacesIffBetter(n)]_vars

(* the model's iteration is the for loop over all connections *)
IterationIsLoop ==
    [][ExpandsNow =>
           search' = AfterConnections(Len(getDirectConnections(Head(search.queue).stop,
                                                                Head(search.queue).time,
                                                                preloadedData)))]_vars

----------------------------------------------------------------------------
(* the n-th connection of the popped state is evaluated and recorded as    *)
(* the best route                                                          *)
RecordedAt(n) ==
    LET current == Head(search.queue)
        connections == getDirectConnections(current.stop, current.time, preloadedData)
    IN  /\ EvaluatedAt(n)
        /\ AfterConnections(n).bestRoute = CandidateOf(current, connections[n])

(* bfsSearch returns the n-th connection's candidate right after it *)
ReturnedAt(n) ==
    /\ AfterConnections(n).returned
    /\ AfterConnections(n).value = AfterConnections(n).bestRoute

EndsSearch(candidate) ==
    \/ candidate.numTransfers = 0
    \/ candidate.distanceToDestination < EARLY_RETURN_DISTANCE

(* C21: early termination.  bfsSearch returns a candidate as soon as it    *)
(* records it when the candidate has 0 transfers or its target stop is     *)
(* less than 0.35 km from the place, and only then.                        *)
C21_EarlyTermination ==
    [][ExpandsNow =>
           \A n \in ConnectionsNow :
               RecordedAt(n) => (ReturnedAt(n) <=> EndsSearch(AfterConnections(n).bestRoute))]_vars

(* the part of C21 that the BFS finder keeps: below 0.35 km it returns,    *)
(* and with a transfer and 0.35 km or more it goes on                      *)
EarlyTerminationBfs ==
    [][(ExpandsNow /\ input.finder = "bfs") =>
           \A n \in ConnectionsNow :
               (RecordedAt(n) /\ AfterConnections(n).bestRoute.numTransfers > 0) =>
                   (ReturnedAt(n) <=> EndsSearch(AfterConnections(n).bestRoute))]_vars

(* the part of C21 that the combined finder keeps: it returns a candidate  *)
(* with 0 transfers                                                        *)
EarlyTerminationCombined ==
    [][(ExpandsNow /\ input.finder = "combined") =>
           \A n \in ConnectionsNow :
               (RecordedAt(n) /\ AfterConnections(n).bestRoute.numTransfers = 0) =>
                   ReturnedAt(n)]_vars

----------------------------------------------------------------------------
(* the transfers with which a stop has been expanded so far *)
ExpandedWith(stop) == {v[2] : v \in {w \in search.visited : w[1] = stop}}

(* the popped state is dropped before the visited test: it is at a target, *)
(* or behind the best route held, or beyond the transfer limit             *)
DroppedBeforeVisitedTest(current) ==
    \/ current.stop \in TargetStops(targetStopsList)
    \/ /\ search.bestRoute # null /\ search.bestRoute.numTransfers = 0
       /\ Len(current.path) > 0
    \/ current.numTransfers > search.maxTransfers
    \/ IF input.finder = "bfs"
       THEN /\ search.bestRoute # null
            /\ current.distanceToTarget > Times2(search.best)
       ELSE /\ search.bestRoute # null /\ search.bestRoute.numTransfers = 1
            /\ current.numTransfers >= 1

(* C22: visited-set rule.  A popped state is not expanded when its stop    *)
(* has been expanded with as many or fewer transfers; it is expanded when  *)
(* its stop has been expanded with more transfers only.                    *)
C22_VisitedRule ==
    [][IsIteration =>
           LET current == Head(search.queue)
               seen == ExpandedWith(current.stop)
           IN  /\ (\E n \in seen : n <= current.numTransfers) => ~ExpandsNow
               /\ (/\ \A n \in seen : n > current.numTransfers
                   /\ ~DroppedBeforeVisitedTest(current)) => ExpandsNow]_vars

(* what the code does: a popped state is not expanded when its stop has    *)
(* been expanded with the same number of transfers, and is expanded        *)
(* otherwise unless dropped before the test                                *)
VisitedKeyRule ==
    [][IsIteration =>
           LET current == Head(search.queue)
               seen == ExpandedWith(current.stop)
           IN  ExpandsNow <=> (/\ current.numTransfers \notin seen
                               /\ ~DroppedBeforeVisitedTest(current))]_vars

----------------------------------------------------------------------------
(* main has run bfsSearch from a walkable stop *)
NearbySearched == nearbyIndex > 0

SourceNeedsFallback == originalResult = null \/ originalResult.numTransfers >= 1

(* C23: walk-fallback trigger.  When the source has walkable stops, main   *)
(* searches from them if and only if the search from the source returned   *)
(* no journey or one with a transfer; a 0-transfer journey from the source *)
(* is the result, and no walkable stop is searched.                        *)
C23_WalkFallbackTrigger ==
    pc = "done" =>
        /\ Len(WalkableStops(loadFile(input.feed, "stops"), input.stopA)) > 0 =>
               (NearbySearched <=> SourceNeedsFallback)
        /\ ~SourceNeedsFallback =>
               (~NearbySearched /\ result = [route |-> originalResult, walk |-> noWalk])

(* C23 for the combined finder with a source outside the target set *)
FallbackTriggerCombined ==
    (pc = "done" /\ input.finder = "combined"
        /\ input.stopA \notin TargetStops(targetStopsList)) =>
        /\ Len(WalkableStops(loadFile(input.feed, "stops"), input.stopA)) > 0 =>
               (NearbySearched <=> SourceNeedsFallback)
        /\ ~SourceNeedsFallback =>
               (~NearbySearched /\ result = [route |-> originalResult, walk |-> noWalk])

(* what the BFS finder does: it searches from the walkable stops if and    *)
(* only if the search from the source returned no journey                  *)
FallbackTriggerBfs ==
    (pc = "done" /\ input.finder = "bfs") =>
        /\ Len(WalkableStops(loadFile(input.feed, "stops"), input.stopA)) > 0 =>
               (NearbySearched <=> originalResult = null)
        /\ originalResult # null =>
               (~NearbySearched /\ result = [route |-> originalResult, walk |-> noWalk])

----------------------------------------------------------------------------
(* the stops other than the source within walking distance of it *)
SourcePosition ==
    (CHOOSE s \in Range(input.feed.stops) : s.stop_id = input.stopA).pos

WithinWalkingDistance ==
    {s \in StopsWithCoordinates :
        /\ s.stop_id # input.stopA
        /\ calculateDistance(SourcePosition, s.pos) <= MAX_WALKING_DISTANCE_KM}

(* main has computed the list of walkable stops *)
WalkableComputed ==
    \/ input.finder = "combined" /\ pc \in {"search", "compare", "done"}
    \/ input.finder = "bfs" /\ pc = "search" /\ nearbyIndex > 0
    \/ input.finder = "bfs" /\ pc = "done" /\ originalResult = null

(* C24: walkable set.  The walkable stops are stops other than the source  *)
(* within 0.5 km of it, in ascending order of distance, at most            *)
(* MAX_NEARBY_STOPS_TO_CHECK of them; when no more than that many stops    *)
(* lie within 0.5 km, all of them are in the list.                         *)
C24_WalkableSet ==
    WalkableComputed =>
        /\ Len(nearbyStops) <= MAX_NEARBY_STOPS_TO_CHECK
        /\ \A i \in 1..Len(nearbyStops) :
               \E s \in WithinWalkingDistance :
                   /\ s.stop_id = nearbyStops[i].stop_id
                   /\ nearbyStops[i].distance = calculateDistance(SourcePosition, s.pos)
        /\ \A i, j \in 1..Len(nearbyStops) :
               i < j => nearbyStops[i].distance <= nearbyStops[j].distance
        /\ Cardinality(WithinWalkingDistance) <= MAX_NEARBY_STOPS_TO_CHECK =>
               \A s \in WithinWalkingDistance :
                   \E i \in 1..Len(nearbyStops) : nearbyStops[i].stop_id = s.stop_id

(* C24 when fewer than MAX_NEARBY_STOPS_TO_CHECK stops lie within 0.5 km   *)
WalkableSetBelowCap ==
    Cardinality(WithinWalkingDistance) < MAX_NEARBY_STOPS_TO_CHECK => C24_WalkableSet

----------------------------------------------------------------------------
(* the pairs of calls (at stop s with a departure after t, at a later stop) *)
(* of the valid trips                                                      *)
RidePairs(stopId, afterTime) ==
    {<<r1, r2>> \in Range(input.feed.stop_times) \X Range(input.feed.stop_times) :
        /\ r1.trip_id = r2.trip_id /\ r1.trip_id \in ValidTripIdsOfFeed
        /\ r1.stop_id = stopId /\ r1.dep > afterTime
        /\ r2.seq > r1.seq}

ConnectionFollows(conn, pair) ==
    /\ conn.trip_id = pair[1].trip_id
    /\ conn.stop_id = pair[2].stop_id
    /\ conn.departure_time = pair[1].dep
    /\ conn.arrival_time = pair[2].arr

(* the connections that the expansion of the popped state is given are     *)
(* exactly the rides from its stop after its time                          *)
ConnectionsExact ==
    LET current == Head(search.queue)
        connections == getDirectConnections(current.stop, current.time, preloadedData)
        pairs == RidePairs(current.stop, current.time)
    IN  /\ \A i \in 1..Len(connections) :
               \E pair \in pairs : ConnectionFollows(connections[i], pair)
        /\ \A pair \in pairs :
               Cardinality({i \in 1..Len(connections) :
                               /\ connections[i].trip_id = pair[1].trip_id
                               /\ connections[i].stop_id = pair[2].stop_id}) = 1

(* C25: getDirectConnections(s, t) returns exactly one connection for      *)
(* every valid trip that leaves s after t and every stop that follows s on *)
(* it, with the departure at s and the arrival at that stop, and nothing   *)
(* else.                                                                   *)
C25_DirectConnections == [][ExpandsNow => ConnectionsExact]_vars

(* no trip of the feed calls twice at a stop *)
NoRepeatedCall ==
    \A r1, r2 \in Range(input.feed.stop_times) :
        (r1.trip_id = r2.trip_id /\ r1.stop_id = r2.stop_id) => r1 = r2

(* C25 for feeds without repeated calls *)
DirectConnectionsSimpleTrips ==
    [][(ExpandsNow /\ NoRepeatedCall) => ConnectionsExact]_vars

----------------------------------------------------------------------------
IsTarget(stopId) == \E i \in 1..Len(targetStopsList) : targetStopsList[i].stop_id = stopId

(* C26: every state in the frontier of bfsSearch is at a stop outside the  *)
(* target set and has distanceToTarget = Infinity, so that the target test *)
(* on a popped state is never true and the frontier is ordered by          *)
(* numTransfers alone.                                                     *)
C26_FrontierOffTargets ==
    \A i \in 1..Len(search.queue) :
        /\ ~IsTarget(search.queue[i].stop)
        /\ search.queue[i].distanceToTarget = Infinity
        /\ i < Len(search.queue) =>
               search.queue[i].numTransfers <= search.queue[i + 1].numTransfers

(* a frontier with states of different numbers of transfers, held while a  *)
(* connection to a target stop has been recorded                           *)
C26_Witness ==
    /\ pc = "search" /\ search.bestRoute # null
    /\ IsTarget(search.bestRoute.finalStop)
    /\ \E i, j \in 1..Len(search.queue) :
           search.queue[i].numTransfers < search.queue[j].numTransfers

----------------------------------------------------------------------------
(* C27: in the BFS finder's bfsSearch, once a best route is held no state  *)
(* of the frontier is expanded any more: the visited set does not grow and *)
(* the best route stays, so that the route returned is one of the          *)
(* connections to a target of a single expanded state.                     *)
C27_SingleExpansion ==
    [][(IsIteration /\ input.finder = "bfs" /\ search.bestRoute # null) =>
           /\ search'.visited = search.visited
           /\ search'.bestRoute = search.bestRoute
           /\ search'.queue = Tail(search.queue)]_vars

(* the BFS finder's bfsSearch has popped states after it recorded a route  *)
(* with a transfer, and returned that route                                *)
C27_Witness ==
    /\ pc = "search" /\ input.finder = "bfs"
    /\ search.returned /\ search.value # null /\ search.value = search.bestRoute
    /\ search.value.numTransfers >= 1
    /\ search.queue = <<>>
    /\ search.iterations > Cardinality(search.visited)

----------------------------------------------------------------------------
(* the adjacent leg pairs of a path that differ in trip_id or route_id *)
TransferPairs(path) ==
    {i \in 1..(Len(path) - 1) :
        path[i].trip_id # path[i + 1].trip_id \/ path[i].route_id # path[i + 1].route_id}

(* the legs of path lead from start to stop at time, over numTransfers     *)
(* transfers                                                               *)
PathWellFormed(start, path, stop, time, numTransfers) ==
    /\ Len(path) > 0 =>
           /\ path[1].from = start
           /\ path[Len(path)].to = stop
           /\ path[Len(path)].arrival = time
    /\ \A i \in 1..(Len(path) - 1) : path[i + 1].from = path[i].to
    /\ numTransfers = Cardinality(TransferPairs(path))

RouteWellFormed(start, route) ==
    /\ PathWellFormed(start, route.path, route.finalStop, route.finalTime,
                      route.numTransfers)
    /\ \E i \in 1..Len(targetStopsList) :
           /\ targetStopsList[i].stop_id = route.finalStop
           /\ targetStopsList[i].distance = route.distanceToDestination

(* C28: every state of the frontier and every route that bfsSearch holds   *)
(* or returns has a well-formed path: the first leg starts at the start    *)
(* stop, each leg starts where the leg before it ended, the stop and the   *)
(* time are the last leg's destination and arrival, numTransfers counts    *)
(* the adjacent leg pairs that differ in (trip_id, route_id), and a        *)
(* route ends at a target stop with that stop's listed distance.           *)
C28_PathWellFormed ==
    input.finder # "transit" =>
        /\ \A i \in 1..Len(search.queue) :
               PathWellFormed(search.startStop, search.queue[i].path, search.queue[i].stop,
                              search.queue[i].time, search.queue[i].numTransfers)
        /\ search.bestRoute # null => RouteWellFormed(search.startStop, search.bestRoute)
        /\ (search.returned /\ search.value # null) =>
               RouteWellFormed(search.startStop, search.value)

(* bfsSearch holds a route of two legs or more while the frontier holds a  *)
(* state whose path has two legs of one trip (no transfer)                 *)
C28_Witness ==
    /\ pc = "search" /\ search.bestRoute # null
    /\ Len(search.bestRoute.path) >= 2
    /\ search.bestRoute.numTransfers >= 1
    /\ \E i \in 1..Len(search.queue) :
           /\ Len(search.queue[i].path) >= 2
           /\ search.queue[i].numTransfers = 0

(* bfsSearch has returned a route of three legs *)
ReturnedThreeLegs ==
    /\ pc = "search" /\ search.returned /\ search.value # null
    /\ Len(search.value.path) >= 3
    /\ search.value.numTransfers >= 2

----------------------------------------------------------------------------
(* the workers that have taken the stop from the queue *)
TakersOf(stop) ==
    {w \in 1..Len(benchmark.workers) :
        \E k \in 1..Len(benchmark.workers[w].taken) : benchmark.workers[w].taken[k] = stop}

(* how often the worker has taken the stop *)
TimesTaken(w, stop) ==
    Cardinality({k \in 1..Len(benchmark.workers[w].taken) :
                    benchmark.workers[w].taken[k] = stop})

(* the entries of the results for the stop *)
EntriesOf(stop) ==
    {k \in 1..Len(benchmark.results) : benchmark.results[k].stopId = stop}

Processing ==
    {w \in 1..Len(benchmark.workers) : benchmark.workers[w].state = "processing"}

InQueue(stop) == \E k \in 1..Len(benchmark.queue) : benchmark.queue[k] = stop

(* C29: in processStopsWithConcurrency each stop is taken from the queue   *)
(* by exactly one worker, once, and processed exactly once; no more than   *)
(* `concurrency` stops are in processing at any moment; and when all       *)
(* workers have finished, the results hold exactly one entry per stop.     *)
C29_WorkerPool ==
    benchmark.pc \in {"running", "returned"} =>
        /\ \A s \in 1..Len(benchmark.stops) :
               LET stop == benchmark.stops[s]
               IN  /\ IF InQueue(stop) THEN TakersOf(stop) = {}
                      ELSE /\ Cardinality(TakersOf(stop)) = 1
                           /\ \A w \in TakersOf(stop) : TimesTaken(w, stop) = 1
                   /\ Cardinality(EntriesOf(stop)) <= 1
                   /\ (~InQueue(stop) /\ EntriesOf(stop) = {}) <=>
                          \E w \in Processing : benchmark.workers[w].stop = stop
        /\ Cardinality(Processing) <= benchmark.concurrency
        /\ (\A w \in 1..Len(benchmark.workers) : benchmark.workers[w].state = "finished") =>
               /\ Len(benchmark.results) = Len(benchmark.stops)
               /\ \A s \in 1..Len(benchmark.stops) :
                      Cardinality(EntriesOf(benchmark.stops[s])) = 1

(* the benchmark has returned the results of more stops than it has        *)
(* workers; two workers or more shared the queue, one of them took two     *)
(* stops, and the results are not in the order of the stops                *)
C29_Witness ==
    /\ benchmark.pc = "returned"
    /\ Len(benchmark.stops) > benchmark.concurrency /\ benchmark.concurrency >= 2
    /\ \E w \in 1..Len(benchmark.workers) : Len(benchmark.workers[w].taken) >= 2
    /\ benchmark.results[1].stopId # benchmark.stops[1]

----------------------------------------------------------------------------
(* the instant `minutes` minutes after the time, in seconds since midnight *)
MinutesAfter(time, minutes) == time + 60 * minutes

(* C30: when bfsSearch expands a state that was reached by a leg, the next *)
(* available time that addMinutesToTime gives for it is the instant        *)
(* TRANSFER_TIME_MINUTES minutes after the state's time, and under         *)
(* compareTime it is not earlier than the state's time.                    *)
C30_AddMinutesLater ==
    [][(ExpandsNow /\ Len(Head(search.queue).path) > 0) =>
           LET current == Head(search.queue)
           IN  /\ addMinutesToTime(current.time, TRANSFER_TIME_MINUTES) =
                      MinutesAfter(current.time, TRANSFER_TIME_MINUTES)
               /\ compareTime(nextAvailableTime(current), current.time) >= 0]_vars

(* the same for the states that are reached more than TRANSFER_TIME_MINUTES *)
(* minutes before midnight                                                  *)
AddMinutesLaterBeforeMidnight ==
    [][(/\ ExpandsNow /\ Len(Head(search.queue).path) > 0
        /\ MinutesAfter(Head(search.queue).time, TRANSFER_TIME_MINUTES) < HMS(24, 0, 0)) =>
           LET current == Head(search.queue)
           IN  /\ addMinutesToTime(current.time, TRANSFER_TIME_MINUTES) =
                      MinutesAfter(current.time, TRANSFER_TIME_MINUTES)
               /\ compareTime(nextAvailableTime(current), current.time) >= 0]_vars

====
